---- MODULE Spec2Model ----
\* Model of templatia's derived Template implementation: the build-time
\* checks of generate_str_parser, render_string, and the left-to-right scan
\* that from_str performs over the template segments.
\*
\* Text (String / &str) is a sequence of one-character strings; offsets are
\* 0-based as in Rust, so the character at offset p is s[p + 1].
EXTENDS Integers, Sequences, FiniteSets, TLC

\* ---------------------------------------------------------------- bounds
MaxLen == 4          \* longest input text handed to from_str
MaxStr == 1          \* longest String value held by a rendered record
MaxVec == 2          \* most elements of a Vec held by a rendered record
MaxColon == 3        \* longest input text made of ':', the colon marker and ';'

\* Characters the enumerated inputs and values are made of.
Alphabet == {"a", "1", ",", ";"}

\* ---------------------------------------------------------------- text helpers
RECURSIVE StrsUpTo(_)
StrsUpTo(n) ==
    IF n = 0 THEN {<<>>}
    ELSE LET shorter == StrsUpTo(n - 1)
         IN  shorter \cup {Append(t, c) : t \in {u \in shorter : Len(u) = n - 1}, c \in Alphabet}

\* s[from..] (Rust slice with 0-based start offset)
SliceFrom(s, from) == SubSeq(s, from + 1, Len(s))

\* s[from..to]
Slice(s, from, to) == SubSeq(s, from + 1, to)

\* does lit occur in s starting at offset p
StartsWithAt(s, p, lit) ==
    /\ p + Len(lit) <= Len(s)
    /\ \A k \in 1..Len(lit) : s[p + k] = lit[k]

\* str::match_indices: start offsets of the non-overlapping matches of pat, left to right
RECURSIVE MatchIndicesFrom(_, _, _)
MatchIndicesFrom(s, pat, p) ==
    IF p + Len(pat) > Len(s) THEN <<>>
    ELSE IF StartsWithAt(s, p, pat)
         THEN <<p>> \o MatchIndicesFrom(s, pat, p + (IF Len(pat) = 0 THEN 1 ELSE Len(pat)))
         ELSE MatchIndicesFrom(s, pat, p + 1)

match_indices(s, pat) == MatchIndicesFrom(s, pat, 0)

\* str::split(','): the pieces between commas; "" splits into one empty piece
RECURSIVE SplitFrom(_, _, _)
SplitFrom(s, p, cur) ==
    IF p >= Len(s) THEN <<cur>>
    ELSE IF s[p + 1] = ","
         THEN <<cur>> \o SplitFrom(s, p + 1, <<>>)
         ELSE SplitFrom(s, p + 1, Append(cur, s[p + 1]))

split(s) == SplitFrom(s, 0, <<>>)

\* [String]::join(",")
RECURSIVE join(_)
join(parts) ==
    IF Len(parts) = 0 THEN <<>>
    ELSE IF Len(parts) = 1 THEN parts[1]
    ELSE parts[1] \o <<",">> \o join(Tail(parts))

\* the character '\0' (char::default())
Nul == "NUL"

\* lexicographic order of String (Ord for String compares bytes)
CharOrd == [c \in {Nul, ",", "0", "1", "2", "3", "4", "5", "6", "7", "8", "9", ";", "a", "e", "f", "l", "r", "s", "t", "u"} |->
              CASE c = Nul -> 0 [] c = "," -> 44 [] c = "0" -> 48 [] c = "1" -> 49 [] c = "2" -> 50
                [] c = "3" -> 51 [] c = "4" -> 52 [] c = "5" -> 53 [] c = "6" -> 54
                [] c = "7" -> 55 [] c = "8" -> 56 [] c = "9" -> 57 [] c = ";" -> 59
                [] c = "a" -> 97 [] c = "e" -> 101 [] c = "f" -> 102 [] c = "l" -> 108
                [] c = "r" -> 114 [] c = "s" -> 115 [] c = "t" -> 116 [] c = "u" -> 117]

RECURSIVE StrLess(_, _)
StrLess(a, b) ==
    IF Len(b) = 0 THEN FALSE
    ELSE IF Len(a) = 0 THEN TRUE
    ELSE IF a[1] = b[1] THEN StrLess(Tail(a), Tail(b))
    ELSE CharOrd[a[1]] < CharOrd[b[1]]

\* ---------------------------------------------------------------- field types
\* The element / scalar types the model instantiates the derive with.
TyString == "String"
TyU8     == "u8"
TyChar   == "char"
TyBool   == "bool"

Digits == <<"0", "1", "2", "3", "4", "5", "6", "7", "8", "9">>
IsDigit(c) == \E d \in 1..10 : Digits[d] = c
DigitVal(c) == (CHOOSE d \in 1..10 : Digits[d] = c) - 1

TrueText  == <<"t", "r", "u", "e">>
FalseText == <<"f", "a", "l", "s", "e">>

\* value of a digit string, saturating just above u8::MAX so that overflow is visible
RECURSIVE DecimalValue(_, _)
DecimalValue(s, acc) ==
    IF Len(s) = 0 THEN acc
    ELSE IF acc > 255 THEN acc
    ELSE DecimalValue(Tail(s), acc * 10 + DigitVal(s[1]))

\* <u8 as FromStr>::from_str: optional '+', then one or more digits, value <= 255
parse_u8(s) ==
    LET body == IF Len(s) > 0 /\ s[1] = "+" THEN Tail(s) ELSE s
    IN  IF Len(body) > 0 /\ (\A k \in 1..Len(body) : IsDigit(body[k])) /\ DecimalValue(body, 0) <= 255
        THEN [ok |-> TRUE, v |-> DecimalValue(body, 0)]
        ELSE [ok |-> FALSE]

\* s.parse::<T>() for the scalar types
parse(ty, s) ==
    CASE ty = TyString -> [ok |-> TRUE, v |-> s]
      [] ty = TyU8     -> parse_u8(s)
      [] ty = TyChar   -> IF Len(s) = 1 THEN [ok |-> TRUE, v |-> s[1]] ELSE [ok |-> FALSE]
      [] ty = TyBool   -> IF s = TrueText THEN [ok |-> TRUE, v |-> TRUE]
                          ELSE IF s = FalseText THEN [ok |-> TRUE, v |-> FALSE]
                          ELSE [ok |-> FALSE]

\* <u8 as Display>: decimal digits without leading zeros
RECURSIVE u8_to_string(_)
u8_to_string(n) ==
    IF n < 10 THEN <<Digits[n + 1]>>
    ELSE Append(u8_to_string(n \div 10), Digits[(n % 10) + 1])

\* v.to_string() for the scalar types
to_string(ty, v) ==
    CASE ty = TyString -> v
      [] ty = TyU8     -> u8_to_string(v)
      [] ty = TyChar   -> <<v>>
      [] ty = TyBool   -> IF v THEN TrueText ELSE FalseText

\* Ord of the scalar types (iteration order of a BTreeSet)
ValLess(ty, a, b) ==
    CASE ty = TyString -> StrLess(a, b)
      [] ty = TyU8     -> a < b
      [] ty = TyChar   -> CharOrd[a] < CharOrd[b]
      [] ty = TyBool   -> (~a) /\ b

\* <T as Default>::default() for the scalar types
default_scalar(ty) ==
    CASE ty = TyString -> <<>>
      [] ty = TyU8     -> 0
      [] ty = TyChar   -> Nul
      [] ty = TyBool   -> FALSE

\* the elements of set S as the sequence a BTreeSet<T> iterates
RECURSIVE SortedSeq(_, _)
SortedSeq(ty, S) ==
    IF S = {} THEN <<>>
    ELSE LET m == CHOOSE x \in S : \A y \in S \ {x} : ValLess(ty, x, y)
         IN  <<m>> \o SortedSeq(ty, S \ {m})

\* every order in which the elements of S can be listed (HashSet iteration order is unspecified)
RECURSIVE Orderings(_)
Orderings(S) ==
    IF S = {} THEN {<<>>}
    ELSE UNION {{<<x>> \o rest : rest \in Orderings(S \ {x})} : x \in S}

SeqRange(sq) == {sq[k] : k \in 1..Len(sq)}

\* ---------------------------------------------------------------- field kinds and segments
Primitive(ty) == [k |-> "Primitive", ty |-> ty]
Option(ty)    == [k |-> "Option", ty |-> ty]
Vec(ty)       == [k |-> "Vec", ty |-> ty]
HashSet(ty)   == [k |-> "HashSet", ty |-> ty]
BTreeSet(ty)  == [k |-> "BTreeSet", ty |-> ty]

\* the kinds that are recognised but that no parser or renderer is generated for
HashMap(kty, vty)  == [k |-> "HashMap", ty |-> kty, vty |-> vty]
BTreeMap(kty, vty) == [k |-> "BTreeMap", ty |-> kty, vty |-> vty]
Result(oty, ety)   == [k |-> "Result", ty |-> oty, vty |-> ety]
Tuple              == [k |-> "Tuple"]
Unknown            == [k |-> "Unknown"]

Literal(text)     == [t |-> "Literal", text |-> text]
Placeholder(name) == [t |-> "Placeholder", name |-> name]

IsLiteral(sg)     == sg.t = "Literal"
IsPlaceholder(sg) == sg.t = "Placeholder"

\* ---------------------------------------------------------------- template text
\* Identifiers of the model are one character long, so an identifier's text is
\* that character; the identifier a text spells is the concatenation of its characters.
ident_to_string(name) == <<name>>

RECURSIVE Ident(_)
Ident(text) == IF text = <<>> THEN "" ELSE text[1] \o Ident(Tail(text))

Newline == "\n"
Space   == " "

\* str::trim
RECURSIVE trim_start(_)
trim_start(text) ==
    IF text # <<>> /\ text[1] \in {Space, Newline} THEN trim_start(Tail(text)) ELSE text

RECURSIVE trim_end(_)
trim_end(text) ==
    IF text # <<>> /\ text[Len(text)] \in {Space, Newline}
    THEN trim_end(SubSeq(text, 1, Len(text) - 1)) ELSE text

trim(text) == trim_end(trim_start(text))

\* str::find of one character: the offset of its first occurrence at or after from, or -1
RECURSIVE find_from(_, _, _)
find_from(text, c, from) ==
    IF from >= Len(text) THEN -1
    ELSE IF text[from + 1] = c THEN from ELSE find_from(text, c, from + 1)

\* Result<Vec<TemplateSegments>, String>
TemplateErr(msg)     == [ok |-> FALSE, err |-> msg]
TemplateOk(segments) == [ok |-> TRUE, segments |-> segments]

\* parse_template_base's loop: i is the offset chars.next() yields next
RECURSIVE parse_template_base_from(_, _, _, _)
parse_template_base_from(template, i, last_end, segments) ==
    IF i >= Len(template)
    THEN IF last_end < Len(template)
         THEN TemplateOk(Append(segments, Literal(SliceFrom(template, last_end))))
         ELSE TemplateOk(segments)
    ELSE LET c          == template[i + 1]
             next_idx   == i + 1
             escaped    == next_idx < Len(template) /\ template[next_idx + 1] = c
             pushed     == IF next_idx > last_end
                           THEN Append(segments, Literal(Slice(template, last_end, next_idx)))
                           ELSE segments
             after_esc  == IF next_idx > last_end THEN next_idx + 1 ELSE last_end
             before     == IF i > last_end
                           THEN Append(segments, Literal(Slice(template, last_end, i)))
                           ELSE segments
             end        == find_from(template, "}", i + 1)
             placeholder == Slice(template, i + 1, end)
         IN  CASE c = "{" ->
                    IF escaped
                    THEN parse_template_base_from(template, i + 2, after_esc, pushed)
                    ELSE IF end = -1 THEN TemplateErr("Unmatched opening brace '{'")
                    ELSE IF find_from(placeholder, "{", 0) # -1
                         THEN TemplateErr("Nested braces are not supported: " \o Ident(placeholder))
                    ELSE parse_template_base_from(template, end + 1, end + 1,
                             Append(before, Placeholder(Ident(trim(placeholder)))))
               [] c = "}" ->
                    IF escaped
                    THEN parse_template_base_from(template, i + 2, after_esc, pushed)
                    ELSE TemplateErr("Unmatched closing brace '}'")
               [] OTHER -> parse_template_base_from(template, i + 1, last_end, segments)

\* the segmenter without the closing `if last_end < template.len()` push
parse_template_base_without_tail(template) ==
    LET r == parse_template_base_from(template, 0, 0, <<>>)
    IN  IF r.ok /\ r.segments # <<>> /\ IsLiteral(r.segments[Len(r.segments)])
        THEN TemplateOk(SubSeq(r.segments, 1, Len(r.segments) - 1))
        ELSE r

parse_template_base(template) == parse_template_base_from(template, 0, 0, <<>>)

GroupBox(segments, placeholder) ==
    [t |-> "GroupBox", segments |-> segments, placeholder |-> placeholder]

\* the names of the Placeholder segments of a group, in order (placeholder_in_group)
placeholder_in_group(partial_segments) ==
    SelectSeq(partial_segments, IsPlaceholder)

\* parse_template's loop over a template that holds '[': i is the offset chars.next() yields next
RECURSIVE parse_template_from(_, _, _, _)
parse_template_from(template, i, last_end, segments) ==
    IF i >= Len(template)
    THEN IF last_end < Len(template)
         THEN LET tail == parse_template_base(SliceFrom(template, last_end))
              IN  IF tail.ok THEN TemplateOk(segments \o tail.segments) ELSE tail
         ELSE TemplateOk(segments)
    ELSE LET c        == template[i + 1]
             next_idx == i + 1
             escaped  == next_idx < Len(template) /\ template[next_idx + 1] = c
             upto     == parse_template_base(Slice(template, last_end, next_idx))
             before   == IF i > last_end
                         THEN parse_template_base(Slice(template, last_end, i))
                         ELSE TemplateOk(<<>>)
             start    == i + 1
             end      == find_from(template, "]", start)
             group_str == Slice(template, start, end)
             partial_segments == parse_template_base(group_str)
             in_group == placeholder_in_group(partial_segments.segments)
             skip_escape ==
                 IF next_idx > last_end
                 THEN IF upto.ok
                      THEN parse_template_from(template, i + 2, next_idx + 1,
                                               segments \o upto.segments)
                      ELSE upto
                 ELSE parse_template_from(template, i + 2, last_end, segments)
         IN  CASE c = "[" ->
                    IF escaped THEN skip_escape
                    ELSE IF ~before.ok THEN before
                    ELSE IF end = -1 THEN TemplateErr("Unmatched opening bracket '['")
                    ELSE IF ~partial_segments.ok THEN partial_segments
                    ELSE IF Len(in_group) > 1
                         THEN TemplateErr("Group box can only contain one placeholder: "
                                          \o Ident(group_str))
                    ELSE IF Len(in_group) = 0
                         THEN TemplateErr("Group box must contain at least one placeholder: "
                                          \o Ident(group_str))
                    ELSE parse_template_from(template, i + 1, last_end,
                             Append(segments \o before.segments,
                                    GroupBox(partial_segments.segments, in_group[1].name)))
               [] c = "]" ->
                    IF escaped THEN skip_escape
                    ELSE parse_template_from(template, i + 1, last_end, segments)
               [] OTHER -> parse_template_from(template, i + 1, last_end, segments)

\* parse_template taking a text with a stray '}' as one literal
parse_template_stray_brace_kept(template) ==
    LET r == IF find_from(template, "[", 0) # -1
             THEN parse_template_from(template, 0, 0, <<>>)
             ELSE parse_template_base(template)
    IN  IF ~r.ok /\ r.err = "Unmatched closing brace '}'"
        THEN TemplateOk(<<Literal(template)>>)
        ELSE r

\* parse_template
parse_template(template) ==
    IF find_from(template, "[", 0) # -1
    THEN parse_template_from(template, 0, 0, <<>>)
    ELSE parse_template_base(template)

\* [String]::join("\n")
RECURSIVE join_lines(_)
join_lines(parts) ==
    IF Len(parts) = 0 THEN <<>>
    ELSE IF Len(parts) = 1 THEN parts[1]
    ELSE parts[1] \o <<Newline>> \o join_lines(Tail(parts))

\* the default template with the lines in reverse field order
default_template_reversed(fields) ==
    join_lines([k \in 1..Len(fields) |->
                  ident_to_string(fields[Len(fields) + 1 - k].name) \o <<Space, "=", Space, "{">>
                  \o ident_to_string(fields[Len(fields) + 1 - k].name) \o <<"}">>])

\* template_derive, Override::Inherit: format!("{0} = {{{0}}}", ident) per named field, joined by "\n"
default_template(fields) ==
    join_lines([k \in 1..Len(fields) |->
                  ident_to_string(fields[k].name) \o <<Space, "=", Space, "{">>
                  \o ident_to_string(fields[k].name) \o <<"}">>])

\* FieldKind as text, e.g. u16, Option<String>, Vec<u16>
TypeName(kind) ==
    CASE kind.k = "Primitive" -> kind.ty
      [] kind.k \in {"Option", "Vec", "HashSet", "BTreeSet"} -> kind.k \o "<" \o kind.ty \o ">"
      [] kind.k \in {"HashMap", "BTreeMap", "Result"} ->
            kind.k \o "<" \o kind.ty \o ", " \o kind.vty \o ">"
      [] OTHER -> kind.k

\* Fields::field_names
field_names(d) == {d.fields[k].name : k \in 1..Len(d.fields)}

\* Fields::get_field_kind
get_field_kind(d, name) ==
    (CHOOSE f \in SeqRange(d.fields) : f.name = name).kind

\* the names used as placeholders, without duplication (template_derive's placeholder_names)
placeholder_names(d) ==
    {d.segments[k].name : k \in {j \in 1..Len(d.segments) : IsPlaceholder(d.segments[j])}}

\* missing_placeholders_sep_opt that requires the Option fields as well
missing_placeholders_sep_opt_all_required(d) ==
    LET missing == field_names(d) \ placeholder_names(d)
    IN  [option     |-> {},
         non_option |-> missing]

\* Fields::missing_placeholders_sep_opt: the fields that are no placeholder, Option kinds apart
missing_placeholders_sep_opt(d) ==
    LET missing == field_names(d) \ placeholder_names(d)
    IN  [option     |-> {n \in missing : get_field_kind(d, n).k = "Option"},
         non_option |-> {n \in missing : get_field_kind(d, n).k # "Option"}]

\* is_allowed_consecutive_allowed_type that allows every type
is_allowed_consecutive_allowed_type_any(ty) == TRUE

\* utils::is_allowed_consecutive_allowed_type
is_allowed_consecutive_allowed_type(ty) == ty \in {TyChar, TyBool}

\* validate_template_safety that reports the last offending pair
validate_template_safety_last_pair(d) ==
    LET bad == {k \in 1..(Len(d.segments) - 1) :
                   /\ IsPlaceholder(d.segments[k])
                   /\ IsPlaceholder(d.segments[k + 1])
                   /\ LET kind == get_field_kind(d, d.segments[k].name)
                      IN  ~(kind.k \in {"Option", "Primitive"} /\ is_allowed_consecutive_allowed_type(kind.ty))}
    IN  IF bad = {} THEN <<>>
        ELSE LET k == CHOOSE m \in bad : \A n \in bad : m >= n
             IN  <<d.segments[k].name, d.segments[k + 1].name,
                   TypeName(get_field_kind(d, d.segments[k].name))>>

\* inv::validator::validate_template_safety: the first adjacent placeholder pair whose
\* first member is not of a fixed-width type, as <<first, second, type text>>; <<>> when safe
validate_template_safety(d) ==
    LET bad == {k \in 1..(Len(d.segments) - 1) :
                   /\ IsPlaceholder(d.segments[k])
                   /\ IsPlaceholder(d.segments[k + 1])
                   /\ LET kind == get_field_kind(d, d.segments[k].name)
                      IN  ~(kind.k \in {"Option", "Primitive"} /\ is_allowed_consecutive_allowed_type(kind.ty))}
    IN  IF bad = {} THEN <<>>
        ELSE LET k == CHOOSE m \in bad : \A n \in bad : m <= n
             IN  <<d.segments[k].name, d.segments[k + 1].name,
                   TypeName(get_field_kind(d, d.segments[k].name))>>

\* ---------------------------------------------------------------- parser errors
\* chumsky::error::Rich as the generated parser sees it: either an expected/found
\* error of a primitive parser (found = FALSE at the end of input) with the offset
\* its span starts at, or a custom error carrying a message.
ExpectedFound(found, start) == [reason |-> "ExpectedFound", found |-> found, start |-> start]
Custom(msg) == [reason |-> "Custom", msg |-> msg]
Panicked == [reason |-> "Panic"]

\* Rich::found: Some only for an expected/found error that met a character
found_is_some(e) == e.reason = "ExpectedFound" /\ e.found

\* str::replace: every non-overlapping occurrence of from, left to right, becomes to
RECURSIVE replace(_, _, _)
replace(text, from, to) ==
    IF text = <<>> THEN <<>>
    ELSE IF StartsWithAt(text, 0, from)
         THEN to \o replace(SliceFrom(text, Len(from)), from, to)
         ELSE <<text[1]>> \o replace(Tail(text), from, to)

\* escaped_colon_marker: the text that stands for ':' inside a message
escaped_colon_marker == <<"#">>

\* replace_colon: replace(":", #escaped_colon_marker)
replace_colon(text) == replace(text, <<":">>, escaped_colon_marker)

\* the text of a message: the marker prefix (one element here), ':', and the escaped
\* parts separated by "::"
RECURSIVE format_parts(_)
format_parts(parts) ==
    IF Len(parts) = 1 THEN replace_colon(parts[1])
    ELSE replace_colon(parts[1]) \o <<":", ":">> \o format_parts(Tail(parts))

format_msg(tag, parts) == <<tag, ":">> \o format_parts(parts)

\* the three messages the generated parser formats: text is what the parser's error
\* carries, the other fields keep the texts it was formatted from. An identifier and a
\* type name are colon-free texts, the type name a single element.
parse_type_msg(placeholder, value, type_name) ==
    [tag |-> "__templatia_parse_type__", placeholder |-> placeholder,
     value |-> value, type_name |-> type_name,
     text |-> format_msg("__templatia_parse_type__",
                         <<ident_to_string(placeholder), value, <<type_name>>>>)]

parse_literal_msg(lit, rest) ==
    [tag |-> "__templatia_parse_literal__", expected_next_literal |-> lit, remaining_text |-> rest,
     text |-> format_msg("__templatia_parse_literal__", <<lit, rest>>)]

conflict_msg(placeholder, first, second) ==
    [tag |-> "__templatia_conflict__", placeholder |-> placeholder,
     first_value |-> first, second_value |-> second,
     text |-> format_msg("__templatia_conflict__", <<ident_to_string(placeholder), first, second>>)]

\* ---------------------------------------------------------------- span capture
\* next_literal that never sees a following literal
next_literal_none(d, i) == <<>>

\* generate_field_parser's next_literal: the text of the segment after segment i when
\* it is a literal, as a zero- or one-element sequence
next_literal(d, i) ==
    IF i < Len(d.segments) /\ IsLiteral(d.segments[i + 1])
    THEN <<d.segments[i + 1].text>> ELSE <<>>

\* generate_base_parser: (just(next_lit).not().ignore_then(any())).repeated(), or
\* any().repeated(): the offset the repetition stops at, consuming at most `most`
RECURSIVE generate_base_parser(_, _, _, _)
generate_base_parser(s, p, nl, most) ==
    IF p >= Len(s) \/ most = 0 \/ (nl # <<>> /\ StartsWithAt(s, p, nl[1]))
    THEN p
    ELSE generate_base_parser(s, p + 1, nl, most - 1)

\* generate_parser without the two token alternatives of bool
generate_parser_bool_untokenized(ty, s, p, nl) ==
    CASE ty = TyChar ->
            IF p < Len(s) THEN [ok |-> TRUE, end |-> p + 1]
            ELSE [ok |-> FALSE, err |-> ExpectedFound(FALSE, p)]
      [] ty = TyBool -> [ok |-> TRUE, end |-> generate_base_parser(s, p, nl, 5)]
      [] OTHER -> [ok |-> TRUE, end |-> generate_base_parser(s, p, nl, Len(s))]

\* generate_parser: the capture of a scalar (or Option inner) type from offset p
generate_parser(ty, s, p, nl) ==
    CASE ty = TyChar ->
            IF p < Len(s) THEN [ok |-> TRUE, end |-> p + 1]
            ELSE [ok |-> FALSE, err |-> ExpectedFound(FALSE, p)]
      [] ty = TyBool ->
            IF StartsWithAt(s, p, TrueText) THEN [ok |-> TRUE, end |-> p + 4]
            ELSE IF StartsWithAt(s, p, FalseText) THEN [ok |-> TRUE, end |-> p + 5]
            ELSE [ok |-> TRUE, end |-> generate_base_parser(s, p, nl, 5)]
      [] OTHER -> [ok |-> TRUE, end |-> generate_base_parser(s, p, nl, Len(s))]

\* inv::parser::generate_str_parser: the capture of a collection field
collection_str_parser(s, p, nl) ==
    [ok |-> TRUE, end |-> generate_base_parser(s, p, nl, Len(s))]

\* ---------------------------------------------------------------- typed conversion
is_string_type(ty) == ty \in {"String", "string", "str", "Str", "STRING", "STR"}

\* parse_elements that converts the first piece only
parse_elements_first_piece(ty, span) ==
    LET pieces == split(span)
        parsed == [k \in 1..Len(pieces) |-> parse(ty, pieces[k])]
    IN  IF \A k \in 1..Len(pieces) : parsed[k].ok
        THEN [ok |-> TRUE, v |-> <<parsed[1].v>>]
        ELSE [ok |-> FALSE]

\* the pieces of a non-empty span converted to the element type; ok is FALSE when one fails
parse_elements(ty, span) ==
    LET pieces == split(span)
        parsed == [k \in 1..Len(pieces) |-> parse(ty, pieces[k])]
    IN  IF \A k \in 1..Len(pieces) : parsed[k].ok
        THEN [ok |-> TRUE, v |-> [k \in 1..Len(pieces) |-> parsed[k].v]]
        ELSE [ok |-> FALSE]

\* try_map_field that converts every Option span to None
try_map_field_option_none(kind, span, empty_str_as_none) ==
    CASE kind.k = "Option" -> [ok |-> TRUE, v |-> <<>>]
      [] kind.k = "Vec" ->
            IF span = <<>> THEN [ok |-> TRUE, v |-> <<>>]
            ELSE parse_elements(kind.ty, span)
      [] kind.k \in {"HashSet", "BTreeSet"} ->
            IF span = <<>> THEN [ok |-> TRUE, v |-> {}]
            ELSE LET r == parse_elements(kind.ty, span)
                 IN  IF r.ok THEN [ok |-> TRUE, v |-> SeqRange(r.v)] ELSE [ok |-> FALSE]
      [] kind.k = "Primitive" -> parse(kind.ty, span)

\* the try_map closure of generate_field_parser, by field kind
try_map_field(kind, span, empty_str_as_none) ==
    CASE kind.k = "Option" ->
            IF (empty_str_as_none \/ ~is_string_type(kind.ty)) /\ span = <<>>
            THEN [ok |-> TRUE, v |-> <<>>]
            ELSE LET r == parse(kind.ty, span)
                 IN  IF r.ok THEN [ok |-> TRUE, v |-> <<r.v>>] ELSE [ok |-> FALSE]
      [] kind.k = "Vec" ->
            IF span = <<>> THEN [ok |-> TRUE, v |-> <<>>]
            ELSE parse_elements(kind.ty, span)
      [] kind.k \in {"HashSet", "BTreeSet"} ->
            IF span = <<>> THEN [ok |-> TRUE, v |-> {}]
            ELSE LET r == parse_elements(kind.ty, span)
                 IN  IF r.ok THEN [ok |-> TRUE, v |-> SeqRange(r.v)] ELSE [ok |-> FALSE]
      [] kind.k = "Primitive" -> parse(kind.ty, span)

\* generate_field_parser: capture from offset p, then convert; the error of a failed
\* conversion is the custom parse_type message with the whole captured span
generate_field_parser(d, i, s, p) ==
    LET name == d.segments[i].name
        kind == get_field_kind(d, name)
        nl   == next_literal(d, i)
        cap  == IF kind.k \in {"Option", "Primitive"}
                THEN generate_parser(kind.ty, s, p, nl)
                ELSE collection_str_parser(s, p, nl)
    IN  IF ~cap.ok THEN [ok |-> FALSE, err |-> cap.err]
        ELSE LET span == Slice(s, p, cap.end)
                 conv == try_map_field(kind, span, d.empty_str_as_none)
             IN  IF conv.ok
                 THEN [ok |-> TRUE, end |-> cap.end, span |-> span, v |-> conv.v]
                 ELSE [ok |-> FALSE,
                       err |-> Custom(parse_type_msg(name, span, TypeName(kind)))]

\* ---------------------------------------------------------------- literals
\* offset of the first character at which just(lit), tried at offset p, stops matching
RECURSIVE MismatchOffset(_, _, _, _)
MismatchOffset(s, p, lit, k) ==
    IF k > Len(lit) THEN p + Len(lit)
    ELSE IF p + k > Len(s) \/ s[p + k] # lit[k] THEN p + k - 1
    ELSE MismatchOffset(s, p, lit, k + 1)

\* just(lit) at offset p
just(s, p, lit) ==
    IF StartsWithAt(s, p, lit) THEN [ok |-> TRUE, end |-> p + Len(lit)]
    ELSE LET q == MismatchOffset(s, p, lit, 1)
         IN  [ok |-> FALSE, err |-> ExpectedFound(q < Len(s), q)]

\* index of the literal segment handled last before segment j (0 when there is none):
\* the segment whose text is last_literal_parsed when segment j's parser is generated
last_literal_index(d, j) ==
    LET lits == {k \in 1..(j - 1) : IsLiteral(d.segments[k])}
    IN  IF lits = {} THEN 0 ELSE CHOOSE k \in lits : \A m \in lits : m <= k

\* literals_counters: how many literal segments up to and including segment k have k's text
literals_count(d, k) ==
    Cardinality({m \in 1..k : IsLiteral(d.segments[m]) /\ d.segments[m].text = d.segments[k].text})

\* last_literal_count as captured by segment j's error mapper (-1 before the first literal)
last_literal_count(d, j) ==
    IF last_literal_index(d, j) = 0 THEN -1 ELSE literals_count(d, last_literal_index(d, j))

\* last_literal_parsed as captured by segment j's error mapper
last_literal_parsed(d, j) ==
    IF last_literal_index(d, j) = 0 THEN <<>> ELSE d.segments[last_literal_index(d, j)].text

\* the map_err closure attached at literal segment j, applied to error e of the parser
\* built so far; indexing found_lit out of range, or slicing past the end, panics
map_err_literal(d, s, j, e) ==
    LET lit       == d.segments[j].text
        count     == last_literal_count(d, j)
        prev      == last_literal_parsed(d, j)
        found_lit == match_indices(s, prev)
    IN  IF found_is_some(e)
        THEN Custom(parse_literal_msg(lit, SliceFrom(s, e.start)))
        ELSE IF count > 0
             THEN IF count > Len(found_lit) THEN Panicked
                  ELSE LET start == found_lit[count] + Len(prev)
                       IN  IF start > Len(s) THEN Panicked
                           ELSE Custom(parse_literal_msg(lit, SliceFrom(s, start)))
             ELSE Custom(parse_literal_msg(lit, SliceFrom(s, 0)))

\* an error raised while segment i is scanned passes through the error mapper of every
\* literal segment from j on, because each mapper wraps the whole parser built before it
RECURSIVE map_err_from(_, _, _, _)
map_err_from(d, s, j, e) ==
    IF j > Len(d.segments) \/ e.reason = "Panic" THEN e
    ELSE IF IsLiteral(d.segments[j])
         THEN map_err_from(d, s, j + 1, map_err_literal(d, s, j, e))
         ELSE map_err_from(d, s, j + 1, e)

\* ---------------------------------------------------------------- canonical text
\* render_value with a present Option written as the empty text
render_value_some_as_empty(kind, v, ord) ==
    CASE kind.k = "Primitive" -> to_string(kind.ty, v)
      [] kind.k = "Option"    -> <<>>
      [] kind.k = "Vec"       -> join([k \in 1..Len(v) |-> to_string(kind.ty, v[k])])
      [] kind.k = "HashSet"   -> join([k \in 1..Len(ord) |-> to_string(kind.ty, ord[k])])
      [] kind.k = "BTreeSet"  ->
            LET sorted == SortedSeq(kind.ty, v)
            IN  join([k \in 1..Len(sorted) |-> to_string(kind.ty, sorted[k])])

\* the text render_string writes for a field value; ord lists a HashSet's elements in
\* the order the set iterates
render_value(kind, v, ord) ==
    CASE kind.k = "Primitive" -> to_string(kind.ty, v)
      [] kind.k = "Option"    -> IF v = <<>> THEN <<>> ELSE to_string(kind.ty, v[1])
      [] kind.k = "Vec"       -> join([k \in 1..Len(v) |-> to_string(kind.ty, v[k])])
      [] kind.k = "HashSet"   -> join([k \in 1..Len(ord) |-> to_string(kind.ty, ord[k])])
      [] kind.k = "BTreeSet"  ->
            LET sorted == SortedSeq(kind.ty, v)
            IN  join([k \in 1..Len(sorted) |-> to_string(kind.ty, sorted[k])])

\* dup_bases / dup_dups: the text of a typed value in the conflict message; a HashSet's
\* element texts pass through a BTreeSet<String>
dup_text(kind, v) ==
    IF kind.k = "HashSet"
    THEN join(SortedSeq(TyString, {to_string(kind.ty, x) : x \in v}))
    ELSE render_value(kind, v, <<>>)

\* ---------------------------------------------------------------- final try_map
\* generate_tuple_pattern's dup_checks: the captures (by position in caps) that repeat an
\* earlier placeholder name, each paired with the first capture of that name
first_bind(caps, n) == CHOOSE m \in 1..n : caps[m].name = caps[n].name /\ \A q \in 1..(m - 1) : caps[q].name # caps[n].name

dup_checks(caps) == {n \in 1..Len(caps) : first_bind(caps, n) # n}

\* Default::default() of a field kind
default_value(kind) ==
    CASE kind.k = "Primitive" -> default_scalar(kind.ty)
      [] kind.k = "Option"    -> <<>>
      [] kind.k = "Vec"       -> <<>>
      [] kind.k \in {"HashSet", "BTreeSet"} -> {}

\* struct_constructor that fills an absent Option field with Some(default)
struct_constructor_some_default(d, caps) ==
    [n \in field_names(d) |->
        IF n \in placeholder_names(d)
        THEN caps[CHOOSE m \in 1..Len(caps) : caps[m].name = n /\ first_bind(caps, m) = m].v
        ELSE IF n \in missing_placeholders_sep_opt(d).option
        THEN <<default_scalar(get_field_kind(d, n).ty)>>
        ELSE default_value(get_field_kind(d, n))]

\* struct_constructor: placeholders take the first capture of their name, the other
\* fields Default::default() or None
struct_constructor(d, caps) ==
    [n \in field_names(d) |->
        IF n \in placeholder_names(d)
        THEN caps[CHOOSE m \in 1..Len(caps) : caps[m].name = n /\ first_bind(caps, m) = m].v
        ELSE IF n \in missing_placeholders_sep_opt(d).option THEN <<>>
        ELSE default_value(get_field_kind(d, n))]

\* the closing try_map comparing and reporting the captured spans instead of the values
final_try_map_raw_spans(d, caps) ==
    LET bad == {n \in dup_checks(caps) : caps[n].span # caps[first_bind(caps, n)].span}
    IN  IF bad = {} THEN [ok |-> TRUE, v |-> struct_constructor(d, caps)]
        ELSE LET n == CHOOSE m \in bad : \A q \in bad : m <= q
             IN  [ok |-> FALSE,
                  err |-> Custom(conflict_msg(caps[n].name,
                                              caps[first_bind(caps, n)].span, caps[n].span))]

\* the closing try_map of generate_str_parser: the first duplicate, in template order,
\* whose typed value differs from the first capture raises the conflict message
final_try_map(d, caps) ==
    LET bad == {n \in dup_checks(caps) : caps[n].v # caps[first_bind(caps, n)].v}
    IN  IF bad = {} THEN [ok |-> TRUE, v |-> struct_constructor(d, caps)]
        ELSE LET n    == CHOOSE m \in bad : \A q \in bad : m <= q
                 kind == get_field_kind(d, caps[n].name)
             IN  [ok |-> FALSE,
                  err |-> Custom(conflict_msg(caps[n].name,
                                              dup_text(kind, caps[first_bind(caps, n)].v),
                                              dup_text(kind, caps[n].v)))]

\* ---------------------------------------------------------------- TemplateError
InconsistentValues(placeholder, first, second) ==
    [e |-> "InconsistentValues", placeholder |-> placeholder,
     first_value |-> first, second_value |-> second]

ParseToType(placeholder, value, type_name) ==
    [e |-> "ParseToType", placeholder |-> placeholder, value |-> value, type_name |-> type_name]

UnexpectedInput(lit, rest) ==
    [e |-> "UnexpectedInput", expected_next_literal |-> lit, remaining_text |-> rest]

ParseError == [e |-> "Parse"]

\* str::strip_prefix with the prefix "<tag>:", as a zero- or one-element sequence
strip_prefix(text, tag) ==
    IF Len(text) >= 2 /\ text[1] = tag /\ text[2] = ":" THEN <<SliceFrom(text, 2)>> ELSE <<>>

\* str::split_once("::"): the texts before and after the first "::", or <<>>
split_once(text) ==
    LET found == match_indices(text, <<":", ":">>)
    IN  IF found = <<>> THEN <<>>
        ELSE <<Slice(text, 0, found[1]), SliceFrom(text, found[1] + 2)>>

\* a decoded part with the marker turned back into ':'
unescape_colon(text) == replace(text, escaped_colon_marker, <<":">>)

\* from_string's decoding of a conflict message
decode_conflict(text) ==
    LET rest == strip_prefix(text, "__templatia_conflict__")
        one  == split_once(rest[1])
        two  == split_once(one[2])
    IN  IF rest = <<>> \/ one = <<>> \/ two = <<>> THEN ParseError
        ELSE InconsistentValues(Ident(unescape_colon(one[1])),
                                unescape_colon(two[1]), unescape_colon(two[2]))

\* the decoding of the two other marker-prefixed messages
decode_parse_type(text) ==
    LET rest == strip_prefix(text, "__templatia_parse_type__")
        one  == split_once(rest[1])
        two  == split_once(one[2])
    IN  IF rest = <<>> \/ one = <<>> \/ two = <<>> THEN ParseError
        ELSE ParseToType(Ident(unescape_colon(one[1])),
                         unescape_colon(two[1]), Ident(unescape_colon(two[2])))

decode_parse_literal(text) ==
    LET rest == strip_prefix(text, "__templatia_parse_literal__")
        one  == split_once(rest[1])
    IN  IF rest = <<>> \/ one = <<>> THEN ParseError
        ELSE UnexpectedInput(unescape_colon(one[1]), unescape_colon(one[2]))

\* from_string: what the caller gets for the error the parser ended with
from_string_err(e) ==
    IF e.reason = "Panic" THEN [kind |-> "Panic"]
    ELSE IF e.reason = "Custom"
    THEN [kind |-> "Err",
          error |-> IF strip_prefix(e.msg.text, "__templatia_conflict__") # <<>>
                    THEN decode_conflict(e.msg.text)
                    ELSE IF strip_prefix(e.msg.text, "__templatia_parse_type__") # <<>>
                    THEN decode_parse_type(e.msg.text)
                    ELSE IF strip_prefix(e.msg.text, "__templatia_parse_literal__") # <<>>
                    THEN decode_parse_literal(e.msg.text)
                    ELSE ParseError]
    ELSE [kind |-> "Err", error |-> ParseError]

\* ---------------------------------------------------------------- render_string
\* lit.replace("{", "{{").replace("}", "}}")
RECURSIVE escape_braces(_)
escape_braces(lit) ==
    IF Len(lit) = 0 THEN <<>>
    ELSE (IF lit[1] \in {"{", "}"} THEN <<lit[1], lit[1]>> ELSE <<lit[1]>>)
         \o escape_braces(Tail(lit))

\* generate_format_string_args' format string: the literals with their braces doubled and
\* "{}" for every placeholder, from segment i on
RECURSIVE format_string(_, _)
format_string(d, i) ==
    IF i > Len(d.segments) THEN <<>>
    ELSE (IF IsLiteral(d.segments[i]) THEN escape_braces(d.segments[i].text) ELSE <<"{", "}">>)
         \o format_string(d, i + 1)

\* generate_format_string_args' arguments as format! displays them: one text per
\* placeholder occurrence, in segment order; ords gives, per HashSet field, the order in
\* which the set iterates
RECURSIVE format_arg_texts(_, _, _, _)
format_arg_texts(d, r, ords, i) ==
    IF i > Len(d.segments) THEN <<>>
    ELSE LET sg == d.segments[i]
         IN  (IF IsLiteral(sg) THEN <<>>
              ELSE <<render_value(get_field_kind(d, sg.name), r[sg.name], ords[sg.name])>>)
             \o format_arg_texts(d, r, ords, i + 1)

\* what format! makes of a format string that is not well formed
FormatError == <<"format error">>

\* format!(fmt, args..): "{{" and "}}" give one brace, "{}" gives the next argument
RECURSIVE format(_, _)
format(fmt, args) ==
    IF Len(fmt) = 0 THEN <<>>
    ELSE IF fmt[1] \in {"{", "}"}
    THEN IF Len(fmt) >= 2 /\ fmt[2] = fmt[1]
         THEN LET rest == format(SubSeq(fmt, 3, Len(fmt)), args)
              IN  IF rest = FormatError THEN FormatError ELSE <<fmt[1]>> \o rest
         ELSE IF fmt[1] = "{" /\ Len(fmt) >= 2 /\ fmt[2] = "}" /\ Len(args) > 0
         THEN LET rest == format(SubSeq(fmt, 3, Len(fmt)), Tail(args))
              IN  IF rest = FormatError THEN FormatError ELSE args[1] \o rest
         ELSE FormatError
    ELSE LET rest == format(Tail(fmt), args)
         IN  IF rest = FormatError THEN FormatError ELSE <<fmt[1]>> \o rest

\* render_string with the format arguments in reverse order
render_string_reversed_args(d, r, ords) ==
    LET args == format_arg_texts(d, r, ords, 1)
    IN  format(format_string(d, 1), [k \in 1..Len(args) |-> args[Len(args) + 1 - k]])

\* to_string / render_string: format!(#format_string, #(#format_args),*)
render_string(d, r, ords) == format(format_string(d, 1), format_arg_texts(d, r, ords, 1))

\* ---------------------------------------------------------------- derived structs
Field(name, kind) == [name |-> name, kind |-> kind]

\* a struct with #[derive(Template)]: its named fields in declared order, the segments of
\* its template, and the two attribute flags as generate_str_parser receives them
Struct(fields, segments, allow_missing_placeholders, empty_str_as_none) ==
    [fields |-> fields, segments |-> segments, template |-> "Explicit",
     allow_missing_placeholders |-> allow_missing_placeholders,
     empty_str_as_none |-> empty_str_as_none]

\* a struct with #[derive(Template)] and no template attribute (Override::Inherit): its
\* segments are those of the default template
DefaultStruct(fields, allow_missing_placeholders, empty_str_as_none) ==
    [fields |-> fields, segments |-> parse_template(default_template(fields)).segments,
     template |-> "Inherit",
     allow_missing_placeholders |-> allow_missing_placeholders,
     empty_str_as_none |-> empty_str_as_none]

Semi == <<";">>
LitA == <<"a">>

XKinds ==
    {Primitive(TyString), Primitive(TyU8), Primitive(TyChar), Primitive(TyBool),
     Option(TyString), Option(TyU8), Option(TyChar),
     Vec(TyU8), Vec(TyString), HashSet(TyU8), HashSet(TyString), BTreeSet(TyU8)}

YKinds == {Primitive(TyString), Primitive(TyU8)}

\* empty_str_option_not_none only matters for Option fields
Flags(kind) == IF kind.k = "Option" THEN BOOLEAN ELSE {TRUE}

\* templates over one field x
OneFieldShapes ==
    {<<Placeholder("x")>>,
     <<Literal(Semi), Placeholder("x")>>,
     <<Placeholder("x"), Literal(Semi)>>,
     <<Placeholder("x"), Literal(Semi), Placeholder("x")>>,
     <<Placeholder("x"), Literal(Semi), Placeholder("x"), Literal(LitA), Placeholder("x")>>}

\* templates whose literals hold braces
LBrace == <<"{">>
RBrace == <<"}">>

\* the template texts {{{x}}}a and {x}}}a{x}
BraceTemplates ==
    {LBrace \o LBrace \o <<"{", "x", "}">> \o RBrace \o RBrace \o LitA,
     <<"{", "x", "}">> \o RBrace \o RBrace \o LitA \o <<"{", "x", "}">>}

BraceShapes == {parse_template(template).segments : template \in BraceTemplates}

\* templates over two fields x and y
TwoFieldShapes ==
    {<<Literal(LitA), Placeholder("x"), Literal(Semi), Placeholder("y")>>,
     <<Placeholder("x"), Literal(Semi), Placeholder("y"), Literal(Semi)>>,
     <<Placeholder("x"), Placeholder("y")>>,
     <<Placeholder("x"), Placeholder("y"), Placeholder("x")>>}

\* templates that leave fields of the struct out
MissingShapes == {<<Literal(Semi), Placeholder("x")>>}

\* templates with placeholders that name no field
UnknownShapes ==
    {<<Placeholder("x"), Literal(Semi), Placeholder("w")>>,
     <<Placeholder("w"), Literal(Semi), Placeholder("v")>>}

\* kinds without a parser or a renderer
UnsupportedKinds ==
    {HashMap(TyString, TyU8), BTreeMap(TyString, TyU8), Result(TyU8, TyString), Tuple, Unknown}

\* templates over a field x and a field t of an unsupported kind
UnsupportedShapes ==
    {<<Placeholder("x"), Literal(Semi), Placeholder("t")>>,
     <<Placeholder("t"), Placeholder("x")>>,
     <<Placeholder("t"), Literal(Semi), Placeholder("t")>>}

\* templates whose literals hold ':' and "::"
ColonShapes ==
    {<<Placeholder("x"), Literal(<<":", ":">>), Placeholder("x")>>,
     <<Literal(<<":">>), Placeholder("x"), Literal(<<":", ";">>)>>}

\* the kinds with a capture of statically known width
FixedKinds == {Primitive(TyChar), Primitive(TyBool), Option(TyChar), Option(TyBool)}

\* kinds of the fields of the structs without a template attribute
DefaultKinds == {Primitive(TyU8), Primitive(TyString), Option(TyString), Vec(TyU8)}

Structs ==
    {Struct(<<Field("x", k)>>, sh, FALSE, f) :
        <<k, sh, f>> \in {t \in XKinds \X OneFieldShapes \X BOOLEAN : t[3] \in Flags(t[1])}}
    \cup
    {Struct(<<Field("x", k), Field("y", ky)>>, sh, FALSE, f) :
        <<k, ky, sh, f>> \in {t \in XKinds \X YKinds \X TwoFieldShapes \X BOOLEAN : t[4] \in Flags(t[1])}}
    \cup
    {Struct(<<Field("x", Primitive(TyU8)), Field("y", k), Field("z", kz)>>, sh, allow, TRUE) :
        <<k, kz, sh, allow>> \in XKinds \X {Option(TyU8), Primitive(TyString)} \X MissingShapes \X BOOLEAN}
    \cup
    {Struct(<<Field("x", k)>>, sh, allow, TRUE) :
        <<k, sh, allow>> \in {Primitive(TyU8), Vec(TyString)} \X UnknownShapes \X BOOLEAN}
    \cup
    {Struct(<<Field("x", k)>>, sh, FALSE, TRUE) :
        <<k, sh>> \in {Primitive(TyString), Vec(TyU8), HashSet(TyU8)} \X BraceShapes}
    \cup
    {Struct(<<Field("x", Primitive(TyChar)), Field("t", k)>>, sh, allow, TRUE) :
        <<k, sh, allow>> \in UnsupportedKinds \X UnsupportedShapes \X BOOLEAN}
    \cup
    {Struct(<<Field("x", k)>>, sh, FALSE, TRUE) :
        <<k, sh>> \in {Primitive(TyString), Primitive(TyU8), Vec(TyU8)} \X ColonShapes}
    \cup
    {Struct(<<Field("x", k), Field("y", ky)>>, <<Placeholder("x"), Placeholder("y")>>, FALSE, TRUE) :
        <<k, ky>> \in FixedKinds \X FixedKinds}
    \cup
    {Struct(<<Field("x", Option(TyBool))>>, sh, FALSE, TRUE) : sh \in OneFieldShapes}
    \cup
    {DefaultStruct(<<Field("x", k)>>, FALSE, TRUE) : k \in DefaultKinds}
    \cup
    {DefaultStruct(<<Field("x", k), Field("y", ky)>>, FALSE, TRUE) :
        <<k, ky>> \in DefaultKinds \X DefaultKinds}

\* texts handed to from_str
ExtraInputs ==
    {TrueText, FalseText, TrueText \o Semi, FalseText \o Semi \o <<"a">>,
     LBrace \o <<"1">> \o RBrace \o LitA, <<"1">> \o RBrace \o LitA \o <<"1">>,
     <<"1", ",", "1", ";", "1">>, <<"1", ",", "a", ";", "a", ",", "1">>,
     TrueText \o FalseText, FalseText \o <<"1">>, <<"a">> \o TrueText,
     <<"1", "1", "1", "1", "1", "1">>,
     <<"0", "1", ";", "1">>, <<"1", ";", "+", "1">>, <<"0", "1", ";", "1", "1">>,
     <<"x", Space, "=", Space, "1">>,
     <<"x", Space, "=", Space, "1", Newline, "y", Space, "=", Space, "a">>,
     <<"y", Space, "=", Space, "a", Newline, "x", Space, "=", Space, "1">>}

\* ---------------------------------------------------------------- field values
ScalarValues(ty) ==
    CASE ty = TyString -> StrsUpTo(MaxStr)
      [] ty = TyU8     -> {0, 1, 11, 101}
      [] ty = TyChar   -> Alphabet
      [] ty = TyBool   -> BOOLEAN

RECURSIVE SeqsUpTo(_, _)
SeqsUpTo(S, n) ==
    IF n = 0 THEN {<<>>}
    ELSE LET shorter == SeqsUpTo(S, n - 1)
         IN  shorter \cup {Append(t, x) : t \in {u \in shorter : Len(u) = n - 1}, x \in S}

Values(kind) ==
    CASE kind.k = "Primitive" -> ScalarValues(kind.ty)
      [] kind.k = "Option"    -> {<<>>} \cup {<<v>> : v \in ScalarValues(kind.ty)}
      [] kind.k = "Vec"       -> SeqsUpTo(ScalarValues(kind.ty), MaxVec)
      [] kind.k \in {"HashSet", "BTreeSet"} ->
            {S \in SUBSET ScalarValues(kind.ty) : Cardinality(S) <= MaxVec}

\* texts holding ':', "::" and the text of the colon marker
ColonInputs ==
    SeqsUpTo({":", ";"} \cup SeqRange(escaped_colon_marker), MaxColon)
    \cup {<<"1", ":", ":", "a">>, <<":", ":", ":", ":", ":">>}

Inputs == StrsUpTo(MaxLen) \cup ExtraInputs \cup ColonInputs

\* the values of struct d
RECURSIVE RecordsFrom(_, _)
RecordsFrom(d, k) ==
    IF k > Len(d.fields) THEN {<<>>}
    ELSE {<<v>> \o rest : v \in Values(d.fields[k].kind), rest \in RecordsFrom(d, k + 1)}

Records(d) ==
    {[n \in field_names(d) |-> t[CHOOSE k \in 1..Len(d.fields) : d.fields[k].name = n]] :
        t \in RecordsFrom(d, 1)}

\* the iteration orders the HashSet fields of r can have (<<>> for the other fields)
IterationOrders(d, r) ==
    LET of(n) == IF get_field_kind(d, n).k = "HashSet" THEN Orderings(r[n]) ELSE {<<>>}
    IN  {f \in [field_names(d) -> UNION {of(n) : n \in field_names(d)}] :
            \A n \in field_names(d) : f[n] \in of(n)}

\* ---------------------------------------------------------------- state
VARIABLES
    def,      \* the struct the derive macro is applied to
    pc,       \* "derive", "compile_error", "ready", "rendered", "scan", "final", "done",
              \* "rendered_again"
    build,    \* outcome of the derive: <<>> before, then [ok |-> ...]
    format_args, \* the compile errors among the generated format arguments
    rec,      \* <<r>> once a record r was rendered, else <<>>
    order,    \* <<ords>>: the iteration order r's HashSet fields had when r was rendered
    s,        \* the text from_str is parsing
    seg,      \* index of the segment the scan handles next
    cursor,   \* offset of the scan in s
    anchor,   \* offset just after the literal the scan matched last (0 before the first)
    caps,     \* captures so far, one [name, span, v] per placeholder occurrence
    raw,      \* <<[seg, err, mapped]>>: the error raised by the failing step, before and
              \* after the error mappers
    result,   \* what from_str returned: [kind |-> "None" / "Ok" / "Err" / "Panic", ...]
    again     \* <<text>> once the record from_str returned was rendered, else <<>>

vars == <<def, pc, build, format_args, rec, order, s, seg, cursor, anchor, caps, raw, result, again>>

NoResult == [kind |-> "None"]

Init ==
    /\ def \in Structs
    /\ pc = "derive"
    /\ build = <<>>
    /\ format_args = {}
    /\ rec = <<>>
    /\ order = <<>>
    /\ s = <<>>
    /\ seg = 0
    /\ cursor = 0
    /\ anchor = 0
    /\ again = <<>>
    /\ caps = <<>>
    /\ raw = <<>>
    /\ result = NoResult

\* the fallback arm with a tuple field taken as supported
unsupported_placeholders_but_tuple(d) ==
    {n \in placeholder_names(d) \cap field_names(d) :
        get_field_kind(d, n).k \notin {"Option", "Vec", "HashSet", "BTreeSet", "Primitive", "Tuple"}}

\* the fallback arm `_ => generate_unsupported_compile_error(..)` of generate_field_parser
\* and of generate_format_string_args: the placeholders whose field kind has no arm
unsupported_placeholders(d) ==
    {n \in placeholder_names(d) \cap field_names(d) :
        get_field_kind(d, n).k \notin {"Option", "Vec", "HashSet", "BTreeSet", "Primitive"}}

\* render::generate_format_string_args: the compile errors among the format arguments
generate_format_string_args(d) ==
    {[error |-> "UnsupportedType", name |-> n] : n \in unsupported_placeholders(d)}
    \cup
    {[error |-> "NotFoundPlaceholder", name |-> n] : n \in placeholder_names(d) \ field_names(d)}

\* generate_str_parser without the check of the placeholder names
generate_str_parser_unchecked_names(d) ==
    LET missing == missing_placeholders_sep_opt(d)
    IN  IF validate_template_safety(d) # <<>>
        THEN {[ok |-> FALSE, error |-> "ConsecutivePlaceholders",
               names |-> {validate_template_safety(d)[1], validate_template_safety(d)[2]},
               first |-> validate_template_safety(d)[1],
               second |-> validate_template_safety(d)[2],
               first_type |-> validate_template_safety(d)[3]]}
        ELSE IF ~d.allow_missing_placeholders /\ missing.non_option # {}
        THEN {[ok |-> FALSE, error |-> "MissingPlaceholders", names |-> missing.non_option]}
        ELSE IF unsupported_placeholders(d) # {}
        THEN {[ok |-> FALSE, error |-> "UnsupportedType", names |-> unsupported_placeholders(d)]}
        ELSE {[ok |-> TRUE]}

\* inv::generator::generate_str_parser up to the construction of the parser: the build
\* either yields the parser or a compile error
generate_str_parser(d) ==
    LET unknown == placeholder_names(d) \ field_names(d)
        missing == missing_placeholders_sep_opt(d)
    IN  IF unknown # {}
        THEN {[ok |-> FALSE, error |-> "NotFoundPlaceholder", names |-> {n}] : n \in unknown}
        ELSE IF validate_template_safety(d) # <<>>
        THEN {[ok |-> FALSE, error |-> "ConsecutivePlaceholders",
               names |-> {validate_template_safety(d)[1], validate_template_safety(d)[2]},
               first |-> validate_template_safety(d)[1],
               second |-> validate_template_safety(d)[2],
               first_type |-> validate_template_safety(d)[3]]}
        ELSE IF ~d.allow_missing_placeholders /\ missing.non_option # {}
        THEN {[ok |-> FALSE, error |-> "MissingPlaceholders", names |-> missing.non_option]}
        ELSE IF unsupported_placeholders(d) # {}
        THEN {[ok |-> FALSE, error |-> "UnsupportedType", names |-> unsupported_placeholders(d)]}
        ELSE {[ok |-> TRUE]}

\* #[derive(Template)] expands
Derive ==
    /\ pc = "derive"
    /\ \E b \in generate_str_parser(def) :
          /\ build' = b
          /\ pc' = IF b.ok /\ generate_format_string_args(def) = {}
                   THEN "ready" ELSE "compile_error"
    /\ format_args' = generate_format_string_args(def)
    /\ UNCHANGED <<def, again, rec, order, s, seg, cursor, anchor, caps, raw, result>>

\* r.render_string()
RenderString ==
    /\ pc = "ready"
    /\ \E r \in Records(def) : \E ords \in IterationOrders(def, r) :
          /\ rec' = <<r>>
          /\ order' = <<ords>>
          /\ s' = render_string(def, r, ords)
    /\ pc' = "rendered"
    /\ UNCHANGED <<def, again, build, format_args, seg, cursor, anchor, caps, raw, result>>

\* from_str(text) on an arbitrary text
FromStr ==
    /\ pc = "ready"
    /\ \E text \in Inputs : s' = text
    /\ pc' = "scan"
    /\ seg' = 1
    /\ cursor' = 0
    /\ UNCHANGED <<def, again, build, format_args, rec, order, anchor, caps, raw, result>>

\* from_str(&r.render_string())
FromStrRendered ==
    /\ pc = "rendered"
    /\ pc' = "scan"
    /\ seg' = 1
    /\ cursor' = 0
    /\ UNCHANGED <<def, again, build, format_args, rec, order, s, anchor, caps, raw, result>>

\* a step of the scan failed with error e at segment seg: the error mappers of the
\* literals from j on rewrite it, and from_string decodes what is left
Fail(e, j) ==
    /\ raw' = <<[seg |-> seg, err |-> e, mapped |-> map_err_from(def, s, j, e)]>>
    /\ result' = from_string_err(map_err_from(def, s, j, e))
    /\ pc' = "done"
    /\ UNCHANGED <<def, again, build, format_args, rec, order, s, seg, cursor, anchor, caps>>

\* generate_parser_from_segments, Literal arm
LiteralArm ==
    /\ pc = "scan"
    /\ seg <= Len(def.segments)
    /\ IsLiteral(def.segments[seg])
    /\ LET m == just(s, cursor, def.segments[seg].text)
       IN  IF m.ok
           THEN /\ cursor' = m.end
                /\ anchor' = m.end
                /\ seg' = seg + 1
                /\ UNCHANGED <<def, again, pc, build, format_args, rec, order, s, caps, raw, result>>
           ELSE Fail(m.err, seg)

\* the Placeholder arm with later occurrences of a field captured but not converted:
\* they take the first occurrence's value
PlaceholderArm_first_converted_only ==
    /\ pc = "scan"
    /\ seg <= Len(def.segments)
    /\ IsPlaceholder(def.segments[seg])
    /\ LET f     == generate_field_parser(def, seg, s, cursor)
           name  == def.segments[seg].name
           kind  == get_field_kind(def, name)
           nl    == next_literal(def, seg)
           cap   == IF kind.k \in {"Option", "Primitive"}
                    THEN generate_parser(kind.ty, s, cursor, nl)
                    ELSE collection_str_parser(s, cursor, nl)
           first == {m \in 1..Len(caps) : caps[m].name = name}
       IN  IF first # {} /\ cap.ok
           THEN /\ cursor' = cap.end
                /\ seg' = seg + 1
                /\ caps' = Append(caps, [name |-> name, span |-> Slice(s, cursor, cap.end),
                                         v |-> caps[CHOOSE m \in first : TRUE].v])
                /\ UNCHANGED <<def, again, pc, build, format_args, rec, order, s, anchor, raw, result>>
           ELSE IF f.ok
           THEN /\ cursor' = f.end
                /\ seg' = seg + 1
                /\ caps' = Append(caps, [name |-> def.segments[seg].name, span |-> f.span, v |-> f.v])
                /\ UNCHANGED <<def, again, pc, build, format_args, rec, order, s, anchor, raw, result>>
           ELSE Fail(f.err, seg + 1)

\* generate_parser_from_segments, Placeholder arm
PlaceholderArm ==
    /\ pc = "scan"
    /\ seg <= Len(def.segments)
    /\ IsPlaceholder(def.segments[seg])
    /\ LET f == generate_field_parser(def, seg, s, cursor)
       IN  IF f.ok
           THEN /\ cursor' = f.end
                /\ seg' = seg + 1
                /\ caps' = Append(caps, [name |-> def.segments[seg].name, span |-> f.span, v |-> f.v])
                /\ UNCHANGED <<def, again, pc, build, format_args, rec, order, s, anchor, raw, result>>
           ELSE Fail(f.err, seg + 1)

\* the end of the scan without .then_ignore(end())
End_ignoring_rest ==
    /\ pc = "scan"
    /\ seg > Len(def.segments)
    /\ pc' = "final"
    /\ UNCHANGED <<def, again, build, format_args, rec, order, s, seg, cursor, anchor, caps, raw, result>>

\* .then_ignore(end())
End ==
    /\ pc = "scan"
    /\ seg > Len(def.segments)
    /\ IF cursor = Len(s)
       THEN /\ pc' = "final"
            /\ UNCHANGED <<def, again, build, format_args, rec, order, s, seg, cursor, anchor, caps, raw, result>>
       ELSE Fail(ExpectedFound(TRUE, cursor), seg)

\* the closing try_map: duplicate checks, then the struct
FinalTryMap ==
    /\ pc = "final"
    /\ LET f == final_try_map(def, caps)
       IN  IF f.ok
           THEN /\ result' = [kind |-> "Ok", value |-> f.v]
                /\ pc' = "done"
                /\ UNCHANGED <<def, again, build, format_args, rec, order, s, seg, cursor, anchor, caps, raw>>
           ELSE Fail(f.err, seg)

\* r2.render_string() on the record from_str returned
RenderAgain ==
    /\ pc = "done"
    /\ result.kind = "Ok"
    /\ \E ords \in IterationOrders(def, result.value) :
          again' = <<render_string(def, result.value, ords)>>
    /\ pc' = "rendered_again"
    /\ UNCHANGED <<def, build, format_args, rec, order, s, seg, cursor, anchor, caps, raw, result>>

Next ==
    \/ RenderAgain
    \/ Derive
    \/ RenderString
    \/ FromStr
    \/ FromStrRendered
    \/ LiteralArm
    \/ PlaceholderArm
    \/ End
    \/ FinalTryMap

Spec == Init /\ [][Next]_vars

\* ================================================================ the segmenter alone
\* The template attribute's text is drawn from the texts over the characters the segmenter
\* tells apart, and parse_template / parse_template_base is applied to it.
MaxTemplate == 5     \* longest enumerated template text

TemplateAlphabet == {"{", "}", "[", "]", "x", Space}

\* the enumerated template texts, and value={value}}}, {{x={ x }}}, {{{{x}}}}: {x},
\* Config[{x}]={x} and [[{x}]]
TemplateTexts ==
    SeqsUpTo(TemplateAlphabet, MaxTemplate) \cup BraceTemplates \cup
    {<<"x", "=", "{", "x", "}", "}", "}">>,
     <<"{", "{", "x", "=", "{", Space, "x", Space, "}", "}", "}">>,
     <<"{", "{", "{", "{", "x", "}", "}", "}", "}", ":", Space, "{", "x", "}">>,
     <<"x", "[", "{", "x", "}", "]", "=", "{", "x", "}">>,
     <<"[", "[", "{", "x", "}", "]", "]">>}

SegInit ==
    /\ def \in {[attr |-> text] : text \in TemplateTexts}
    /\ pc = "template"
    /\ build = <<>>
    /\ format_args = {}
    /\ rec = <<>>
    /\ order = <<>>
    /\ s = <<>>
    /\ seg = 0
    /\ cursor = 0
    /\ anchor = 0
    /\ again = <<>>
    /\ caps = <<>>
    /\ raw = <<>>
    /\ result = NoResult

\* template_derive: parse_template(&template)
ParseTemplate ==
    /\ pc = "template"
    /\ build' = parse_template(def.attr)
    /\ pc' = "segmented"
    /\ UNCHANGED <<def, format_args, rec, order, s, seg, cursor, anchor, caps, raw, result, again>>

\* parse_template_base on the whole text
ParseTemplateBase ==
    /\ pc = "template"
    /\ build' = parse_template_base(def.attr)
    /\ pc' = "segmented_base"
    /\ UNCHANGED <<def, format_args, rec, order, s, seg, cursor, anchor, caps, raw, result, again>>

SegNext ==
    \/ ParseTemplate
    \/ ParseTemplateBase

SegSpec == SegInit /\ [][SegNext]_vars

\* ================================================================ field classification alone
\* The types of the fields as syn hands them to analyze_fields: a path type with the
\* arguments of its last segment, a tuple type, or another type (a reference, an array).
MaxArgs == 3         \* most generic arguments of an enumerated field type

NoArguments      == [a |-> "None"]
AngleBracketed(args) == [a |-> "AngleBracketed", args |-> args]
Parenthesized    == [a |-> "Parenthesized"]

TypeArgument(ty)   == [g |-> "Type", ty |-> ty]

TypePath(ident, arguments) == [syn |-> "Path", ident |-> ident, arguments |-> arguments]
TypeTuple                  == [syn |-> "Tuple"]
TypeReference              == [syn |-> "Reference"]

\* two types and a lifetime, which is no GenericArgument::Type
GenericArguments ==
    {TypeArgument("u8"), TypeArgument("String"), [g |-> "Lifetime", ty |-> "'a"]}

TypeIdents ==
    {"Option", "Vec", "HashSet", "BTreeSet", "HashMap", "BTreeMap", "Result", "Box", "u8"}

FieldTypes ==
    {TypePath(ident, AngleBracketed(args)) : ident \in TypeIdents, args \in SeqsUpTo(GenericArguments, MaxArgs)}
    \cup {TypePath(ident, NoArguments) : ident \in TypeIdents}
    \cup {TypePath("Fn", Parenthesized), TypeTuple, TypeReference}

\* syn::Field: ident is <<>> for an unnamed field
SynField(ident, ty) == [ident |-> ident, ty |-> ty]

\* the structs handed to Fields::new: a field x of any type, alone or followed by a named
\* or an unnamed second field
FieldLists ==
    {<<SynField(<<"x">>, ty)>> : ty \in FieldTypes}
    \cup {<<SynField(<<"x">>, ty), SynField(ident, other)>> :
             ty \in FieldTypes, ident \in {<<"y">>, <<>>},
             other \in {TypePath("u8", NoArguments),
                        TypePath("Result", AngleBracketed(<<TypeArgument("u8")>>))}}

\* FieldKind::Collection, which the generator files tell apart by the collection's name
Collection(ident, ty) == [k |-> ident, ty |-> ty]

\* FieldKind::KVCollection, likewise
KVCollection(ident, kty, vty) == [k |-> ident, ty |-> kty, vty |-> vty]

\* the match on field.ty of analyze_fields: the kind inserted for the field as a one-element
\* sequence, or the empty sequence when no arm inserts
inserted_kind(ty) ==
    IF ty.syn = "Path"
    THEN IF ty.arguments.a = "AngleBracketed"
         THEN LET args  == ty.arguments.args
                  first == args[1]
                  last  == args[Len(args)]
              IN  CASE ty.ident = "Option" ->
                         IF Len(args) = 1 /\ first.g = "Type"
                         THEN <<Option(first.ty)>> ELSE <<Unknown>>
                    [] ty.ident \in {"Vec", "HashSet", "BTreeSet"} ->
                         IF Len(args) = 1 /\ first.g = "Type"
                         THEN <<Collection(ty.ident, first.ty)>> ELSE <<Unknown>>
                    [] ty.ident \in {"HashMap", "BTreeMap"} ->
                         IF Len(args) = 2 /\ first.g = "Type" /\ last.g = "Type"
                         THEN <<KVCollection(ty.ident, first.ty, last.ty)>> ELSE <<Unknown>>
                    [] ty.ident = "Result" ->
                         IF Len(args) = 2
                         THEN IF first.g = "Type" /\ last.g = "Type"
                              THEN <<Result(first.ty, last.ty)>> ELSE <<Unknown>>
                         ELSE <<>>
                    [] OTHER -> <<Unknown>>
         ELSE IF ty.arguments.a = "None" THEN <<Primitive(ty.ident)>>
         ELSE <<Unknown>>
    ELSE IF ty.syn = "Tuple" THEN <<Tuple>>
    ELSE <<Unknown>>

\* analyze_fields' loop from field k on; result.insert overwrites the entry of the ident
RECURSIVE analyze_fields_from(_, _, _)
analyze_fields_from(fields, k, registry) ==
    IF k > Len(fields) THEN registry
    ELSE IF fields[k].ident = <<>> \/ inserted_kind(fields[k].ty) = <<>>
         THEN analyze_fields_from(fields, k + 1, registry)
         ELSE analyze_fields_from(fields, k + 1,
                  [n \in DOMAIN registry \cup {fields[k].ident[1]} |->
                      IF n = fields[k].ident[1] THEN inserted_kind(fields[k].ty)[1]
                      ELSE registry[n]])

\* analyze_fields
analyze_fields(fields) == analyze_fields_from(fields, 1, <<>>)

FieldInit ==
    /\ def \in {[syn_fields |-> fields] : fields \in FieldLists}
    /\ pc = "fields"
    /\ build = <<>>
    /\ format_args = {}
    /\ rec = <<>>
    /\ order = <<>>
    /\ s = <<>>
    /\ seg = 0
    /\ cursor = 0
    /\ anchor = 0
    /\ again = <<>>
    /\ caps = <<>>
    /\ raw = <<>>
    /\ result = NoResult

\* Fields::new
FieldsNew ==
    /\ pc = "fields"
    /\ build' = [idents_type |-> analyze_fields(def.syn_fields)]
    /\ pc' = "analyzed"
    /\ UNCHANGED <<def, format_args, rec, order, s, seg, cursor, anchor, caps, raw, result, again>>

FieldSpec == FieldInit /\ [][FieldsNew]_vars

\* ================================================================ properties
\* from_str has returned for a text that render_string produced
RoundTripDone == pc = "done" /\ rec # <<>>

AllFieldsInTemplate == field_names(def) \subseteq placeholder_names(def)

\* a kind whose capture has a statically known width: char or bool, possibly in Option
FixedWidth(kind) == kind.k \in {"Primitive", "Option"} /\ kind.ty \in {TyChar, TyBool}

\* the text segment i contributed to the rendered record, and the offset it starts at
SegText(i) ==
    IF IsLiteral(def.segments[i]) THEN def.segments[i].text
    ELSE render_value(get_field_kind(def, def.segments[i].name),
                      rec[1][def.segments[i].name], order[1][def.segments[i].name])

RECURSIVE SegOffset(_)
SegOffset(i) == IF i = 1 THEN 0 ELSE SegOffset(i - 1) + Len(SegText(i - 1))

\* the only exception C1 names: an Option<String> that is None under empty_str_option_not_none
NoneStringException ==
    \E n \in field_names(def) :
        /\ get_field_kind(def, n) = Option(TyString)
        /\ rec[1][n] = <<>>
        /\ ~def.empty_str_as_none

\* C1 as stated. Round trip: for every template that compiles and every record whose
\* fields are all of a supported kind and all appear in the template,
\* from_str(render_string(r)) succeeds and returns r, except for an Option<String> field
\* that is None while empty_str_option_not_none is set.
C1_RoundTripAsStated ==
    (RoundTripDone /\ AllFieldsInTemplate /\ ~NoneStringException)
        => (result.kind = "Ok" /\ result.value = rec[1])

\* the literal after a variable-width placeholder does not begin inside the field's text
DelimiterFree ==
    \A i \in 1..Len(def.segments) :
        (/\ IsPlaceholder(def.segments[i])
         /\ ~FixedWidth(get_field_kind(def, def.segments[i].name))
         /\ next_literal(def, i) # <<>>)
        => \A q \in SegOffset(i)..(SegOffset(i) + Len(SegText(i)) - 1) :
               ~StartsWithAt(s, q, next_literal(def, i)[1])

\* the element texts of a collection value
ElementTexts(kind, v) ==
    IF kind.k = "Vec" THEN {to_string(kind.ty, v[k]) : k \in 1..Len(v)}
    ELSE {to_string(kind.ty, x) : x \in v}

ElementCount(kind, v) == IF kind.k = "Vec" THEN Len(v) ELSE Cardinality(v)

\* a collection whose ','-join splits back into its element texts
SplittableCollections ==
    \A n \in field_names(def) :
        LET kind == get_field_kind(def, n)
        IN  kind.k \in {"Vec", "HashSet", "BTreeSet"}
            => /\ \A t \in ElementTexts(kind, rec[1][n]) : \A k \in 1..Len(t) : t[k] # ","
               /\ ~(ElementCount(kind, rec[1][n]) = 1 /\ ElementTexts(kind, rec[1][n]) = {<<>>})

\* an Option whose rendered text tells absent from present
DistinguishableOptions ==
    \A n \in field_names(def) :
        LET kind == get_field_kind(def, n)
        IN  kind.k = "Option"
            => /\ is_string_type(kind.ty) /\ rec[1][n] = <<>> => def.empty_str_as_none
               /\ is_string_type(kind.ty) /\ rec[1][n] = <<<<>>>> => ~def.empty_str_as_none
               /\ FixedWidth(kind) => rec[1][n] # <<>>

\* C1 amended. from_str(render_string(r)) = Ok(r) for every compiled template holding all
\* fields and every record r such that no literal following a variable-width placeholder
\* begins inside that field's rendered text, no collection has an element whose text
\* contains ',' or consists of one empty text, no Option<String> is Some("") with
\* emptyStringMeansAbsent or None without it, and no Option<char> / Option<bool> is None.
C1_RoundTrip ==
    (RoundTripDone /\ AllFieldsInTemplate
        /\ DelimiterFree /\ SplittableCollections /\ DistinguishableOptions)
        => (result.kind = "Ok" /\ result.value = rec[1])

\* a record with a two-element Vec and a second field came back from its own rendering
C1_Witness ==
    /\ RoundTripDone /\ AllFieldsInTemplate
    /\ DelimiterFree /\ SplittableCollections /\ DistinguishableOptions
    /\ get_field_kind(def, "x").k = "Vec"
    /\ Len(rec[1]["x"]) = 2
    /\ Len(def.fields) = 2
    /\ result.kind = "Ok"

\* ---------------------------------------------------------------- outcomes of from_str
\* from_str returned the error e
Err(e) == [kind |-> "Err", error |-> e]

\* the marker of the message the failing step raised ("none" when it raised no message)
RawTag ==
    IF raw # <<>> /\ raw[1].err.reason = "Custom" THEN raw[1].err.msg.tag ELSE "none"

\* every segment matched and the input was consumed: the closing try_map has run
ScanCompleted == pc = "done" /\ seg > Len(def.segments) /\ cursor = Len(s)

\* the canonical string representation of the n-th capture
CanonText(n) == dup_text(get_field_kind(def, caps[n].name), caps[n].v)

\* the later occurrences whose canonical string differs from their first occurrence's
Disagreeing == {n \in dup_checks(caps) : CanonText(n) # CanonText(first_bind(caps, n))}

\* C2 as stated. Duplicate-placeholder consistency: when a field occurs as a placeholder
\* more than once and the input otherwise matches, from_str returns Ok exactly when all
\* occurrences have the same canonical string representation, and otherwise
\* InconsistentValues naming the field with the representations of the first occurrence
\* and of a disagreeing later one.
C2_DuplicateConsistency ==
    (ScanCompleted /\ dup_checks(caps) # {})
        => /\ (result.kind = "Ok") <=> (Disagreeing = {})
           /\ Disagreeing # {}
                => \E n \in Disagreeing :
                       result = Err(InconsistentValues(caps[n].name,
                                                       CanonText(first_bind(caps, n)),
                                                       CanonText(n)))

\* the step that failed is the conversion of the span captured for placeholder segment seg
ConversionFailed == pc = "done" /\ RawTag = "__templatia_parse_type__"

FailedKind == get_field_kind(def, def.segments[seg].name)

\* C3 as stated. A captured span that cannot be converted to a Primitive field's type makes
\* from_str return ParseToType with the field name, the captured span and the field's type
\* name, wherever the placeholder stands in the template.
C3_PrimitiveParseToType ==
    (ConversionFailed /\ FailedKind.k = "Primitive")
        => result = Err(ParseToType(def.segments[seg].name,
                                    raw[1].err.msg.value, TypeName(FailedKind)))

\* the step that failed is the match of literal segment seg at the cursor
LiteralFailed ==
    /\ pc = "done" /\ raw # <<>>
    /\ seg <= Len(def.segments)
    /\ IsLiteral(def.segments[seg])

\* C4 as stated. When a template literal cannot be matched at the cursor, from_str returns
\* UnexpectedInput with that literal and, as remaining text, the input from just after the
\* most recently matched literal on (the whole input when none was matched yet).
C4_UnexpectedInput ==
    LiteralFailed
        => result = Err(UnexpectedInput(def.segments[seg].text, SliceFrom(s, anchor)))

\* the earliest later occurrence, among the captures made, whose value differs from the
\* first occurrence of its field (0 when there is none)
EarliestConflict ==
    LET bad == {n \in dup_checks(caps) : caps[n].v # caps[first_bind(caps, n)].v}
    IN  IF bad = {} THEN 0 ELSE CHOOSE n \in bad : \A m \in bad : n <= m

\* the error the failing step itself produces: a literal's mismatch as its own error
\* mapper words it, any other step's error as raised
StepError ==
    IF seg <= Len(def.segments) /\ IsLiteral(def.segments[seg])
    THEN from_string_err(map_err_literal(def, s, seg, raw[1].err))
    ELSE from_string_err(raw[1].err)

\* C5 as stated. Fail fast in scan order: from_str returns the error of the leftmost
\* failing step; an inconsistency between two captures already made is reported in
\* preference to any failure further right, otherwise the failing step's own error is
\* returned, and no record is returned.
C5_FailFast ==
    pc = "done"
        => /\ EarliestConflict # 0
                => result = Err(InconsistentValues(caps[EarliestConflict].name,
                                    CanonText(first_bind(caps, EarliestConflict)),
                                    CanonText(EarliestConflict)))
           /\ (EarliestConflict = 0 /\ raw # <<>>)
                => result = StepError

\* C6 as stated. For a collection field, if a comma-separated piece of the captured span
\* fails to convert, from_str returns ParseToType whose value is the whole unsplit span
\* and whose type name is the collection type with its element type.
C6_CollectionParseToType ==
    (ConversionFailed /\ FailedKind.k \in {"Vec", "HashSet", "BTreeSet"})
        => result = Err(ParseToType(def.segments[seg].name,
                                    Slice(s, cursor, generate_base_parser(s, cursor,
                                              next_literal(def, seg), Len(s))),
                                    TypeName(FailedKind)))

\* ---------------------------------------------------------------- conversions
IsCollection(kind) == kind.k \in {"Vec", "HashSet", "BTreeSet"}

\* the positions of the commas of text t
CommaPositions(t) == {p \in 1..Len(t) : t[p] = ","}

\* the pieces of t between its commas, in order
Pieces(t) ==
    LET cuts   == CommaPositions(t)
        n      == Cardinality(cuts) + 1
        cut(k) == IF k = 0 THEN 0
                  ELSE IF k = n THEN Len(t) + 1
                  ELSE CHOOSE p \in cuts : Cardinality({q \in cuts : q < p}) = k - 1
    IN  [k \in 1..n |-> SubSeq(t, cut(k - 1) + 1, cut(k) - 1)]

\* C7. Collection conversion: an empty captured span yields the empty collection and no
\* error; a non-empty span is split on ',' and every piece is converted to the element
\* type, a Vec keeping the pieces in input order with repetitions, a HashSet and a
\* BTreeSet holding the distinct elements, the BTreeSet iterating them in ascending order.
C7_CollectionConversion ==
    /\ \A n \in 1..Len(caps) :
          LET kind   == get_field_kind(def, caps[n].name)
              pieces == Pieces(caps[n].span)
              sorted == SortedSeq(kind.ty, caps[n].v)
          IN  IsCollection(kind)
              => IF caps[n].span = <<>>
                 THEN IF kind.k = "Vec" THEN caps[n].v = <<>> ELSE caps[n].v = {}
                 ELSE /\ \A k \in 1..Len(pieces) : parse(kind.ty, pieces[k]).ok
                      /\ kind.k = "Vec"
                           => caps[n].v = [k \in 1..Len(pieces) |-> parse(kind.ty, pieces[k]).v]
                      /\ kind.k # "Vec"
                           => caps[n].v = {parse(kind.ty, pieces[k]).v : k \in 1..Len(pieces)}
                      /\ kind.k = "BTreeSet"
                           => /\ Len(sorted) = Cardinality(caps[n].v)
                              /\ \A i \in 1..Len(sorted) : \A j \in (i + 1)..Len(sorted) :
                                    ValLess(kind.ty, sorted[i], sorted[j])
    /\ (ConversionFailed /\ IsCollection(FailedKind))
          => /\ raw[1].err.msg.value # <<>>
             /\ \E k \in 1..Len(Pieces(raw[1].err.msg.value)) :
                    ~parse(FailedKind.ty, Pieces(raw[1].err.msg.value)[k]).ok

\* a Vec<u8> captured "1,1" and kept both elements
C7_Witness ==
    \E n \in 1..Len(caps) :
        /\ get_field_kind(def, caps[n].name) = Vec(TyU8)
        /\ caps[n].span = <<"1", ",", "1">>
        /\ caps[n].v = <<1, 1>>

\* C8 as stated. Optional conversion: the result is None exactly when the captured span is
\* empty and (emptyStringMeansAbsent holds or the inner type is not string-like); in every
\* other case the span is converted to the inner type and the result is Some(value); a
\* conversion failure makes from_str return ParseToType.
C8_OptionConversion ==
    /\ \A n \in 1..Len(caps) :
          LET kind   == get_field_kind(def, caps[n].name)
              absent == /\ caps[n].span = <<>>
                        /\ (def.empty_str_as_none \/ ~is_string_type(kind.ty))
          IN  kind.k = "Option"
              => /\ (caps[n].v = <<>>) <=> absent
                 /\ ~absent => /\ parse(kind.ty, caps[n].span).ok
                               /\ caps[n].v = <<parse(kind.ty, caps[n].span).v>>
    /\ (ConversionFailed /\ FailedKind.k = "Option")
          => result = Err(ParseToType(def.segments[seg].name,
                                      Slice(s, cursor, generate_parser(FailedKind.ty, s, cursor,
                                                next_literal(def, seg)).end),
                                      TypeName(FailedKind)))

\* the fields of def that occur in no placeholder segment
AbsentFields ==
    {def.fields[k].name : k \in {j \in 1..Len(def.fields) :
        \A i \in 1..Len(def.segments) :
            IsLiteral(def.segments[i]) \/ def.segments[i].name # def.fields[j].name}}

\* C9. Missing-placeholder defaulting: with allow_missing_placeholders set, after a
\* successful parse every field that is no placeholder is None if it is an Option field
\* and Default::default() otherwise, whatever the input; the fields that are placeholders
\* take their parsed values.
C9_MissingDefaults ==
    (pc = "done" /\ result.kind = "Ok" /\ def.allow_missing_placeholders)
        => \A n \in field_names(def) :
              IF n \in AbsentFields
              THEN IF get_field_kind(def, n).k = "Option"
                   THEN result.value[n] = <<>>
                   ELSE result.value[n] = default_value(get_field_kind(def, n))
              ELSE \E m \in 1..Len(caps) :
                      caps[m].name = n /\ result.value[n] = caps[m].v

\* a parse that filled an absent Option field with None and an absent set with the empty set
C9_Witness ==
    /\ pc = "done" /\ result.kind = "Ok" /\ def.allow_missing_placeholders
    /\ AbsentFields = {"y", "z"}
    /\ get_field_kind(def, "y") = HashSet(TyU8)
    /\ get_field_kind(def, "z") = Option(TyU8)
    /\ result.value = [x |-> 11, y |-> {}, z |-> <<>>]

\* the derive has run on a template that passes the placeholder-name and safety checks
\* and has placeholders of supported kinds only, while missing placeholders are not allowed
StrictBuild ==
    /\ pc # "derive"
    /\ ~def.allow_missing_placeholders
    /\ placeholder_names(def) \subseteq field_names(def)
    /\ validate_template_safety(def) = <<>>
    /\ unsupported_placeholders(def) = {}

\* C10 as stated. If allowMissingPlaceholders is false, compiling succeeds only if every
\* field appears as a placeholder; if any field, of any kind, is absent, compiling fails
\* with an error that lists the missing field names.
C10_MissingRejectedAsStated ==
    StrictBuild
        => /\ build.ok => AbsentFields = {}
           /\ AbsentFields # {}
                => build = [ok |-> FALSE, error |-> "MissingPlaceholders", names |-> AbsentFields]

\* the absent fields whose kind is not Option
AbsentRequired == {n \in AbsentFields : get_field_kind(def, n).k # "Option"}

\* C10 amended. If allowMissingPlaceholders is false, compiling a template whose
\* placeholders name fields of supported kinds and has no ambiguous adjacent pair succeeds
\* exactly when every field whose kind is not Option appears as a placeholder (Option
\* fields may be absent); otherwise it fails with an error that lists the absent
\* non-Option fields.
C10_MissingRejected ==
    StrictBuild
        => /\ build.ok <=> AbsentRequired = {}
           /\ AbsentRequired # {}
                => build = [ok |-> FALSE, error |-> "MissingPlaceholders", names |-> AbsentRequired]

\* a build rejected for the absent field y while the absent Option field z is not listed
C10_Witness ==
    /\ StrictBuild
    /\ pc = "compile_error"
    /\ AbsentFields = {"y", "z"}
    /\ get_field_kind(def, "z").k = "Option"
    /\ build.names = {"y"}

\* ---------------------------------------------------------------- build-time checks
\* the placeholder names of def's template that no field of def has
UnknownNames ==
    {def.segments[i].name : i \in {j \in 1..Len(def.segments) :
        /\ IsPlaceholder(def.segments[j])
        /\ \A k \in 1..Len(def.fields) : def.fields[k].name # def.segments[j].name}}

\* C11. Compiling fails at build time whenever a placeholder names something that is not
\* a field of the record: the error names such a placeholder, and no matcher that was
\* built, nor any scan it runs, holds a placeholder without a matching field.
C11_UnknownPlaceholder ==
    pc # "derive"
        => /\ UnknownNames # {}
                => /\ build.ok = FALSE
                   /\ build.error = "NotFoundPlaceholder"
                   /\ build.names # {}
                   /\ build.names \subseteq UnknownNames
           /\ build.ok => UnknownNames = {}
           /\ pc \in {"ready", "rendered", "scan", "final", "done"} => UnknownNames = {}

\* a build rejected because placeholder w names no field
C11_Witness ==
    /\ pc = "compile_error"
    /\ build.error = "NotFoundPlaceholder"
    /\ build.names = {"w"}
    /\ "w" \in UnknownNames

\* the adjacent placeholder pairs (by the index of their first member) whose first member
\* is not of a fixed-width kind
BadPairs ==
    {i \in 1..(Len(def.segments) - 1) :
        /\ IsPlaceholder(def.segments[i])
        /\ IsPlaceholder(def.segments[i + 1])
        /\ ~FixedWidth(get_field_kind(def, def.segments[i].name))}

\* C12. Safety validation: a template whose placeholders all name fields is rejected as
\* having ambiguous consecutive placeholders if and only if it has an adjacent pair
\* Placeholder(a), Placeholder(b) in which the kind of a is not char or bool, directly or
\* inside Option; the error reports the first such pair in template order with a's kind.
C12_SafetyValidation ==
    (pc # "derive" /\ UnknownNames = {})
        => /\ (build.ok = FALSE /\ build.error = "ConsecutivePlaceholders") <=> BadPairs # {}
           /\ BadPairs # {}
                => LET i == CHOOSE m \in BadPairs : \A n \in BadPairs : m <= n
                   IN  /\ build.first = def.segments[i].name
                       /\ build.second = def.segments[i + 1].name
                       /\ build.first_type = TypeName(get_field_kind(def, def.segments[i].name))

\* a template whose first adjacent pair is safe and whose second is the one reported
C12_Witness ==
    /\ pc = "compile_error"
    /\ build.error = "ConsecutivePlaceholders"
    /\ BadPairs = {2}
    /\ build.first = "y" /\ build.second = "x"
    /\ FixedWidth(get_field_kind(def, "x"))

\* a template with two offending pairs, of which the first is reported
C12_WitnessFirstOfTwo ==
    /\ pc = "compile_error"
    /\ BadPairs = {1, 2}
    /\ build.first = "x" /\ build.second = "y"

\* the placeholders of def's template whose field is a mapping, a tuple, a Result or of an
\* unrecognised type
UnsupportedNames ==
    {def.segments[i].name : i \in {j \in 1..Len(def.segments) :
        /\ IsPlaceholder(def.segments[j])
        /\ \E k \in 1..Len(def.fields) :
              /\ def.fields[k].name = def.segments[j].name
              /\ def.fields[k].kind.k \in {"HashMap", "BTreeMap", "Tuple", "Result", "Unknown"}}}

\* C13. A placeholder whose field kind is a mapping, a tuple, a Result or an unrecognised
\* type makes compilation fail with a build-time unsupported-type error for that field,
\* and no parse or render call ever runs on a template with such a placeholder.
C13_UnsupportedKind ==
    /\ (pc # "derive" /\ UnsupportedNames # {})
          => /\ pc = "compile_error"
             /\ build.ok = FALSE
             /\ \A n \in UnsupportedNames : [error |-> "UnsupportedType", name |-> n] \in format_args
             /\ build.error \in {"ConsecutivePlaceholders", "MissingPlaceholders", "UnsupportedType"}
             /\ (BadPairs = {} /\ (def.allow_missing_placeholders \/ AbsentRequired = {}))
                    => (build.error = "UnsupportedType" /\ build.names = UnsupportedNames)
    /\ pc \in {"ready", "rendered", "scan", "final", "done"} => UnsupportedNames = {}

\* a build rejected for a tuple field used as a placeholder
C13_Witness ==
    /\ pc = "compile_error"
    /\ "t" \in field_names(def)
    /\ get_field_kind(def, "t") = Tuple
    /\ UnsupportedNames = {"t"}
    /\ build.error = "UnsupportedType"
    /\ build.names = {"t"}
    /\ [error |-> "UnsupportedType", name |-> "t"] \in format_args

\* ---------------------------------------------------------------- end of input
\* the index in caps of the capture made for placeholder segment i
CapIndex(i) == Cardinality({j \in 1..i : IsPlaceholder(def.segments[j])})

\* the text the first n segments matched: literal texts and captured spans, in order
RECURSIVE MatchedText(_)
MatchedText(n) ==
    IF n = 0 THEN <<>>
    ELSE MatchedText(n - 1) \o (IF IsLiteral(def.segments[n]) THEN def.segments[n].text
                                ELSE caps[CapIndex(n)].span)

\* every segment has matched and input is left over
InputLeftOver == pc = "done" /\ seg > Len(def.segments) /\ cursor < Len(s)

\* C14. from_str succeeds only if the template consumes the whole input: an Ok result
\* means the segments matched the input from its first to its last character, and any
\* character left after the final segment has matched makes from_str return
\* TemplateError::Parse, be the final segment a literal or a fixed-width placeholder.
C14_TrailingInput ==
    /\ (pc = "done" /\ result.kind = "Ok")
          => /\ seg = Len(def.segments) + 1
             /\ cursor = Len(s)
             /\ MatchedText(Len(def.segments)) = s
    /\ InputLeftOver => result = Err(ParseError)

\* input left after a final literal
C14_Witness ==
    /\ InputLeftOver
    /\ IsLiteral(def.segments[Len(def.segments)])
    /\ MatchedText(Len(def.segments)) = Slice(s, 0, cursor)
    /\ result = Err(ParseError)

\* input left after a final char placeholder
C14_WitnessFixedWidth ==
    /\ InputLeftOver
    /\ IsPlaceholder(def.segments[Len(def.segments)])
    /\ get_field_kind(def, def.segments[Len(def.segments)].name) = Primitive(TyChar)
    /\ result = Err(ParseError)

\* ---------------------------------------------------------------- rendering
\* texts joined by single commas
RECURSIVE CommaJoined(_)
CommaJoined(texts) ==
    IF Len(texts) = 0 THEN <<>>
    ELSE IF Len(texts) = 1 THEN texts[1]
    ELSE CommaJoined(SubSeq(texts, 1, Len(texts) - 1)) \o <<",">> \o texts[Len(texts)]

\* the canonical string of value v of a field of the given kind; iter lists the elements of
\* a set in the order the set iterates
CanonicalString(kind, v, iter) ==
    CASE kind.k = "Primitive" -> to_string(kind.ty, v)
      [] kind.k = "Option" -> IF v = <<>> THEN <<>> ELSE to_string(kind.ty, v[1])
      [] kind.k = "Vec" -> CommaJoined([k \in 1..Len(v) |-> to_string(kind.ty, v[k])])
      [] kind.k \in {"HashSet", "BTreeSet"} ->
            CommaJoined([k \in 1..Len(iter) |-> to_string(kind.ty, iter[k])])

\* the order in which field n of the rendered record iterates, if it is a set
IterOf(n) ==
    IF get_field_kind(def, n).k = "BTreeSet"
    THEN SortedSeq(get_field_kind(def, n).ty, rec[1][n])
    ELSE order[1][n]

\* the concatenation of the first n segments: literal texts and canonical strings
RECURSIVE Concatenation(_)
Concatenation(n) ==
    IF n = 0 THEN <<>>
    ELSE Concatenation(n - 1)
         \o (IF IsLiteral(def.segments[n]) THEN def.segments[n].text
             ELSE CanonicalString(get_field_kind(def, def.segments[n].name),
                                  rec[1][def.segments[n].name], IterOf(def.segments[n].name)))

\* C15. Rendering: render_string returns the concatenation, in segment order, of each
\* literal's text, braces single, and of each placeholder's canonical string: the Display
\* form of a Primitive, the empty text for None, the inner Display form for Some, the
\* ','-join of the elements' Display forms for a collection; a field occurring several
\* times contributes the same text each time, the fields that are no placeholder
\* contribute nothing, and rendering does not fail.
C15_Rendering ==
    rec # <<>>
        => /\ s = Concatenation(Len(def.segments))
           /\ s # FormatError

\* a rendering with braces in the literals and a Vec with two elements
C15_Witness ==
    /\ pc = "rendered"
    /\ def.segments = <<Literal(LBrace), Placeholder("x"), Literal(RBrace), Literal(LitA)>>
    /\ rec[1]["x"] = <<1, 11>>
    /\ s = <<"{", "1", ",", "1", "1", "}", "a">>

\* a rendering that leaves the absent fields y and z out
C15_WitnessAbsentFields ==
    /\ pc = "rendered"
    /\ AbsentFields = {"y", "z"}
    /\ rec[1]["y"] # default_value(get_field_kind(def, "y"))
    /\ s = Semi \o to_string(TyU8, rec[1]["x"])

\* ---------------------------------------------------------------- default template
\* the line of the k-th declared field with the given text in the place of its value
DefaultLine(k, text) == <<def.fields[k].name>> \o <<" ", "=", " ">> \o text

\* the lines of the first n declared fields, separated by single newlines
RECURSIVE DefaultLines(_, _)
DefaultLines(texts, n) ==
    IF n = 0 THEN <<>>
    ELSE IF n = 1 THEN DefaultLine(1, texts[1])
    ELSE DefaultLines(texts, n - 1) \o <<"\n">> \o DefaultLine(n, texts[n])

\* C16. Default template: a struct without a template attribute uses the template made of
\* one line "name = {name}" per named field, in declared order, joined by single newlines
\* without a trailing one: its segments are those of that text, render_string returns the
\* lines with each field's canonical string, and from_str accepts only a text made of
\* those lines, taking field k's span from line k.
C16_DefaultTemplate ==
    def.template = "Inherit"
        => /\ def.segments =
                 parse_template(DefaultLines([k \in 1..Len(def.fields) |->
                                    <<"{", def.fields[k].name, "}">>], Len(def.fields))).segments
           /\ rec # <<>>
                 => s = DefaultLines([k \in 1..Len(def.fields) |->
                            CanonicalString(def.fields[k].kind, rec[1][def.fields[k].name],
                                            IterOf(def.fields[k].name))], Len(def.fields))
           /\ (pc = "done" /\ result.kind = "Ok")
                 => /\ Len(caps) = Len(def.fields)
                    /\ \A k \in 1..Len(caps) : caps[k].name = def.fields[k].name
                    /\ s = DefaultLines([k \in 1..Len(caps) |-> caps[k].span], Len(caps))

\* a record of two fields rendered as two lines and parsed back
C16_Witness ==
    /\ def.template = "Inherit"
    /\ def.fields = <<Field("x", Primitive(TyU8)), Field("y", Primitive(TyString))>>
    /\ pc = "done" /\ rec # <<>>
    /\ result.kind = "Ok"
    /\ s = <<"x", " ", "=", " ", "1", "\n", "y", " ", "=", " ", "a">>
    /\ result.value = [x |-> 1, y |-> <<"a">>]

\* ---------------------------------------------------------------- message encoding
\* the error whose string fields are the texts message m was formatted from
Formatted(m) ==
    CASE m.tag = "__templatia_conflict__" ->
            InconsistentValues(m.placeholder, m.first_value, m.second_value)
      [] m.tag = "__templatia_parse_type__" ->
            ParseToType(m.placeholder, m.value, m.type_name)
      [] m.tag = "__templatia_parse_literal__" ->
            UnexpectedInput(m.expected_next_literal, m.remaining_text)

\* from_str returned after the parser ended with a marker-prefixed message
MessageDecoded == pc = "done" /\ raw # <<>> /\ raw[1].mapped.reason = "Custom"

\* C17 as stated. Error-field fidelity: the string fields of every returned error
\* (placeholder, first_value, second_value, value, type_name, expected_next_literal,
\* remaining_text) equal the texts the message was formatted from, for any content
\* including ':' and "::": the encoding never truncates a value, never shifts text from
\* one field to another and never leaks or consumes an escape marker.
C17_ErrorFieldFidelity ==
    MessageDecoded => result = Err(Formatted(raw[1].mapped.msg))

\* the same for the messages whose texts do not hold the colon marker's text
C17_FidelityWithoutMarker ==
    (MessageDecoded /\ match_indices(s, escaped_colon_marker) = <<>>)
        => result = Err(Formatted(raw[1].mapped.msg))

\* ---------------------------------------------------------------- stability of rendering
\* the record parsed from a rendering of rec[1] has been rendered
RenderedAgain == pc = "rendered_again" /\ rec # <<>>

\* C18 as stated. Rendering is stable under a parse: for every record r for which
\* from_str(render_string(r)) succeeds with record r2, render_string(r2) equals
\* render_string(r), also when fields are absent from the template and get defaults.
C18_RenderStableAsStated == RenderedAgain => again[1] = s

\* every placeholder captured exactly the text that was rendered for it
SpansAsRendered ==
    \A i \in 1..Len(def.segments) :
        IsPlaceholder(def.segments[i]) => caps[CapIndex(i)].span = SegText(i)

\* the set fields among the placeholders
SetPlaceholders ==
    {n \in placeholder_names(def) : get_field_kind(def, n).k \in {"HashSet", "BTreeSet"}}

\* no element of a set field renders to a text holding ','
CommaFreeSets ==
    \A n \in SetPlaceholders : \A e \in rec[1][n] :
        match_indices(to_string(get_field_kind(def, n).ty, e), <<",">>) = <<>>

\* no HashSet field among the placeholders holds two elements or more
SmallHashSets ==
    \A n \in SetPlaceholders :
        get_field_kind(def, n).k = "HashSet" => Cardinality(rec[1][n]) <= 1

\* C18. Rendering is stable under a parse when the parse cuts the text where the
\* rendering joined it: if from_str(render_string(r)) succeeds with record r2, every
\* placeholder having captured exactly the text rendered for it, no element of a set
\* field rendering to a text with ',' and no HashSet placeholder holding more than one
\* element, then render_string(r2) equals render_string(r), also when fields are absent
\* from the template and get defaults.
C18_RenderStable ==
    (RenderedAgain /\ SpansAsRendered /\ CommaFreeSets /\ SmallHashSets) => again[1] = s

\* a stable second rendering of a record whose absent fields were replaced by defaults
C18_Witness ==
    /\ RenderedAgain /\ SpansAsRendered /\ CommaFreeSets /\ SmallHashSets
    /\ AbsentFields # {}
    /\ result.value # rec[1]
    /\ again[1] = s
    /\ s # <<>>

\* ---------------------------------------------------------------- repeated scalar fields
\* the later occurrences, among the captures, of Primitive fields
PrimitiveDups == {n \in dup_checks(caps) : get_field_kind(def, caps[n].name).k = "Primitive"}

\* the later occurrences of Primitive fields whose span differs from the first occurrence's
RawDisagreeing == {n \in PrimitiveDups : caps[n].span # caps[first_bind(caps, n)].span}

\* a text as an error field returns it: the colon marker's text comes back as ':'
AsReturned(text) == replace(text, escaped_colon_marker, <<":">>)

\* C19 as stated. A Primitive field occurring more than once is compared on the raw
\* captured text, before typed conversion: from_str returns InconsistentValues whenever
\* the spans of two occurrences differ as strings, whether or not they convert to equal
\* values, and first_value / second_value are those spans.
C19_RawComparisonAsStated ==
    (ScanCompleted /\ RawDisagreeing # {})
        => \E n \in RawDisagreeing :
              result = Err(InconsistentValues(caps[n].name,
                                              caps[first_bind(caps, n)].span, caps[n].span))

\* C19. A Primitive field occurring more than once is compared on the converted values:
\* when the input matches and every occurrence converts, from_str returns Ok if each later
\* occurrence converts to the value of the first, also when their spans differ as strings,
\* and otherwise InconsistentValues for the earliest disagreeing occurrence in template
\* order, first_value / second_value being the Display texts of the two converted values
\* as the message encoding returns them.
C19_TypedComparison ==
    (ScanCompleted /\ PrimitiveDups # {})
        => /\ EarliestConflict = 0 => result.kind = "Ok"
           /\ EarliestConflict \in PrimitiveDups
                 => LET n  == EarliestConflict
                        ty == get_field_kind(def, caps[n].name).ty
                    IN  result = Err(InconsistentValues(caps[n].name,
                                 AsReturned(to_string(ty, caps[first_bind(caps, n)].v)),
                                 AsReturned(to_string(ty, caps[n].v))))

\* two spans of a u8 field that differ as strings and convert to the same value
C19_Witness ==
    /\ ScanCompleted
    /\ s = <<"0", "1", ";", "1">>
    /\ RawDisagreeing = {2}
    /\ result.kind = "Ok"
    /\ result.value = [x |-> 1]

\* two spans that convert to different values, reported by their Display texts
C19_WitnessConflict ==
    /\ ScanCompleted
    /\ s = <<"0", "1", ";", "1", "1">>
    /\ result = Err(InconsistentValues("x", <<"1">>, <<"1", "1">>))

\* ---------------------------------------------------------------- later occurrences
\* segment i is a placeholder whose field already occurs earlier in the template
LaterOccurrence(i) ==
    /\ i <= Len(def.segments)
    /\ IsPlaceholder(def.segments[i])
    /\ \E j \in 1..(i - 1) :
          IsPlaceholder(def.segments[j]) /\ def.segments[j].name = def.segments[i].name

\* the conversion that failed is that of a later occurrence of a field
LaterConversionFailed == ConversionFailed /\ LaterOccurrence(seg)

\* the capture made for the first occurrence of the field of segment seg
FirstCapture == caps[CHOOSE m \in 1..Len(caps) : caps[m].name = def.segments[seg].name]

\* C20 as stated. Only the first occurrence's span of a repeated field is converted to the
\* field's type; later occurrences are check-only: a conversion error for the field
\* reports the first occurrence's span, and a later occurrence whose span differs from
\* the first yields InconsistentValues whatever its text is.
C20_FirstOccurrenceOnlyAsStated ==
    /\ LaterConversionFailed
          => /\ raw[1].err.msg.value = FirstCapture.span
             /\ result.kind = "Err" /\ result.error.e = "InconsistentValues"
    /\ (ScanCompleted /\ \E n \in dup_checks(caps) : caps[n].span # caps[first_bind(caps, n)].span)
          => result.kind = "Err" /\ result.error.e = "InconsistentValues"

\* C20. Every occurrence's span of a repeated field is converted to the field's type and
\* the first occurrence's value becomes the field's value: after a successful parse each
\* later capture holds the conversion of its own span; a later occurrence whose span
\* does not convert raises the conversion error with that later span, and from_str then
\* returns neither a record nor InconsistentValues; InconsistentValues is returned only
\* when the whole input matched, every occurrence converted and two values differ.
C20_EveryOccurrenceConverted ==
    /\ (pc = "done" /\ result.kind = "Ok")
          => \A n \in dup_checks(caps) :
                LET kind == get_field_kind(def, caps[n].name)
                    conv == try_map_field(kind, caps[n].span, def.empty_str_as_none)
                IN  /\ conv.ok
                    /\ conv.v = caps[n].v
                    /\ result.value[caps[n].name] = caps[first_bind(caps, n)].v
    /\ LaterConversionFailed
          => LET kind == FailedKind
                 span == raw[1].err.msg.value
             IN  /\ raw[1].err.msg.placeholder = def.segments[seg].name
                 /\ StartsWithAt(s, cursor, span)
                 /\ ~try_map_field(kind, span, def.empty_str_as_none).ok
                 /\ try_map_field(kind, FirstCapture.span, def.empty_str_as_none).ok
                 /\ result.kind # "Ok"
                 /\ result.kind = "Err" => result.error.e # "InconsistentValues"
    /\ (pc = "done" /\ result.kind = "Err" /\ result.error.e = "InconsistentValues")
          => ScanCompleted /\ EarliestConflict # 0

\* the second occurrence of a u8 field fails to convert and is reported with its own span
C20_Witness ==
    /\ LaterConversionFailed
    /\ s = <<"1", ";", "a">>
    /\ FirstCapture.span = <<"1">>
    /\ result = Err(ParseToType("x", <<"a">>, "u8"))

\* ---------------------------------------------------------------- capture spans
\* the offsets at or after p at which text lit occurs in the input
OccurrencesFrom(lit, p) == {q \in p..Len(s) : StartsWithAt(s, q, lit)}

\* the span the claim gives a variable-width placeholder at segment i whose capture starts
\* at offset p: up to the first occurrence of the following literal, or the remainder
\* (also when the following literal occurs nowhere, where the claim names no span)
ClaimedSpan(i, p) ==
    IF i < Len(def.segments) /\ IsLiteral(def.segments[i + 1])
          /\ OccurrencesFrom(def.segments[i + 1].text, p) # {}
    THEN LET occ == OccurrencesFrom(def.segments[i + 1].text, p)
         IN  Slice(s, p, CHOOSE q \in occ : \A r \in occ : q <= r)
    ELSE SliceFrom(s, p)

\* segment i is a placeholder of a kind other than char / bool (possibly in Option)
VariableWidth(i) ==
    IsPlaceholder(def.segments[i]) /\ ~FixedWidth(get_field_kind(def, def.segments[i].name))

\* the scan is under way or over: segments 1..seg-1 have matched
Scanning == pc \in {"scan", "final", "done", "rendered_again"} /\ seg >= 1

\* C21. Capture span of a variable-width placeholder: when the next segment is a literal L
\* the span is the input from the cursor up to, not including, the first occurrence of L
\* at or after the cursor, and the cursor stops at the start of that occurrence; when the
\* placeholder is the last segment the span is the whole remainder of the input. This
\* holds of every capture made and of the span a failed conversion reports.
C21_CaptureSpan ==
    Scanning
        => /\ \A i \in 1..(seg - 1) :
                 VariableWidth(i)
                    => /\ caps[CapIndex(i)].span = ClaimedSpan(i, Len(MatchedText(i - 1)))
                       /\ Len(MatchedText(i)) =
                             Len(MatchedText(i - 1)) + Len(ClaimedSpan(i, Len(MatchedText(i - 1))))
           /\ (ConversionFailed /\ VariableWidth(seg))
                 => raw[1].err.msg.value = ClaimedSpan(seg, cursor)

\* a String captured up to the first of two occurrences of the following literal, and a
\* last placeholder that takes the remainder
C21_Witness ==
    /\ pc = "done" /\ result.kind = "Ok"
    /\ def.fields = <<Field("x", Primitive(TyString)), Field("y", Primitive(TyString))>>
    /\ def.segments = <<Literal(LitA), Placeholder("x"), Literal(Semi), Placeholder("y")>>
    /\ s = <<"a", "1", ";", ";">>
    /\ caps[1].span = <<"1">>
    /\ caps[2].span = <<";">>

\* ---------------------------------------------------------------- fixed-width captures
\* segment i is a placeholder of kind char or bool, possibly in Option
FixedWidthAt(i) ==
    IsPlaceholder(def.segments[i]) /\ FixedWidth(get_field_kind(def, def.segments[i].name))

KindAt(i) == get_field_kind(def, def.segments[i].name)

BoolTokens == {TrueText, FalseText}

\* the spans of the bool placeholders: those captured and the one a failed conversion reports
BoolSpans ==
    {caps[CapIndex(i)].span : i \in {j \in 1..(seg - 1) : FixedWidthAt(j) /\ KindAt(j).ty = TyBool}}
    \cup (IF ConversionFailed /\ KindAt(seg).ty = TyBool THEN {raw[1].err.msg.value} ELSE {})

\* every char placeholder matched so far captured exactly the character at its offset
CharCaptures ==
    \A i \in 1..(seg - 1) :
        (FixedWidthAt(i) /\ KindAt(i).ty = TyChar)
            => caps[CapIndex(i)].span = Slice(s, Len(MatchedText(i - 1)), Len(MatchedText(i - 1)) + 1)

\* C22 as stated. Fixed-width capture: a char placeholder (or Option<char>) consumes
\* exactly one input character and a bool placeholder (or Option<bool>) exactly one of
\* the tokens true / false, whatever segment follows; a bool placeholder never captures
\* any other text.
C22_FixedWidthAsStated ==
    Scanning => CharCaptures /\ BoolSpans \subseteq BoolTokens

\* C22. Fixed-width capture: a char placeholder (or Option<char>) consumes exactly one
\* input character; a bool placeholder (or Option<bool>) consumes the token true when it
\* stands at the cursor, else the token false when that stands at the cursor, whatever
\* segment follows; when neither stands there it captures the text up to the following
\* literal, at most five characters: an Option<bool> whose capture is empty becomes None
\* and every other such capture fails to convert. Consecutive fixed-width placeholders
\* therefore split the input at the token boundaries.
C22_FixedWidth ==
    Scanning
        => /\ CharCaptures
           /\ \A i \in 1..(seg - 1) :
                 (FixedWidthAt(i) /\ KindAt(i).ty = TyBool)
                    => LET p    == Len(MatchedText(i - 1))
                           span == caps[CapIndex(i)].span
                       IN  IF StartsWithAt(s, p, TrueText) THEN span = TrueText
                           ELSE IF StartsWithAt(s, p, FalseText) THEN span = FalseText
                           ELSE /\ span = <<>>
                                /\ KindAt(i).k = "Option"
                                /\ caps[CapIndex(i)].v = <<>>
           /\ (ConversionFailed /\ KindAt(seg).ty = TyBool)
                 => LET span == raw[1].err.msg.value
                        rest == ClaimedSpan(seg, cursor)
                    IN  /\ ~StartsWithAt(s, cursor, TrueText)
                        /\ ~StartsWithAt(s, cursor, FalseText)
                        /\ span = SubSeq(rest, 1, IF Len(rest) < 5 THEN Len(rest) ELSE 5)
                        /\ span # <<>> \/ KindAt(seg).k = "Primitive"

\* two adjacent bool placeholders split "truefalse" into its two tokens
C22_Witness ==
    /\ pc = "done" /\ result.kind = "Ok"
    /\ def.fields = <<Field("x", Primitive(TyBool)), Field("y", Primitive(TyBool))>>
    /\ def.segments = <<Placeholder("x"), Placeholder("y")>>
    /\ s = TrueText \o FalseText
    /\ result.value = [x |-> TRUE, y |-> FALSE]

\* two adjacent char placeholders split a two-character input
C22_WitnessChars ==
    /\ pc = "done" /\ result.kind = "Ok"
    /\ def.fields = <<Field("x", Primitive(TyChar)), Field("y", Primitive(TyChar))>>
    /\ def.segments = <<Placeholder("x"), Placeholder("y")>>
    /\ s = <<"a", "1">>
    /\ result.value = [x |-> "a", y |-> "1"]

\* an Option<bool> placeholder that captured the empty text and became None
C22_WitnessEmptyBool ==
    /\ pc = "done" /\ result.kind = "Ok"
    /\ def.fields = <<Field("x", Option(TyBool))>>
    /\ def.segments = <<Placeholder("x"), Literal(Semi)>>
    /\ s = Semi
    /\ caps[1].span = <<>>

\* ---------------------------------------------------------------- adjacent placeholders
\* the indices k such that segments k and k + 1 are both placeholders
AdjacentPairs ==
    {k \in 1..(Len(def.segments) - 1) :
        IsPlaceholder(def.segments[k]) /\ IsPlaceholder(def.segments[k + 1])}

\* the derive accepted the struct
Compiled == pc \notin {"derive", "compile_error"}

\* C23 as stated. In every template that compiles, both placeholders of every adjacent
\* pair are of a fixed-width kind (char or bool, possibly inside Option).
C23_AdjacentBothFixedAsStated ==
    Compiled => \A k \in AdjacentPairs : FixedWidthAt(k) /\ FixedWidthAt(k + 1)

\* C23. In every template that compiles, the first placeholder of every adjacent pair is
\* of a fixed-width kind (char or bool, possibly inside Option), the second being of any
\* supported kind; a template with an adjacent pair whose first placeholder is not
\* fixed-width is rejected at build time.
C23_AdjacentFirstFixed ==
    /\ Compiled => \A k \in AdjacentPairs : FixedWidthAt(k)
    /\ (pc # "derive" /\ \E k \in AdjacentPairs :
                            \/ def.segments[k].name \notin field_names(def)
                            \/ ~FixedWidthAt(k))
          => pc = "compile_error"

\* a compiled template in which a char placeholder is directly followed by a String one
C23_Witness ==
    /\ pc = "done" /\ result.kind = "Ok"
    /\ def.fields = <<Field("x", Primitive(TyChar)), Field("y", Primitive(TyString))>>
    /\ def.segments = <<Placeholder("x"), Placeholder("y")>>
    /\ s = <<"a", "1", ";">>
    /\ result.value = [x |-> "a", y |-> <<"1", ";">>]

\* a rejected template in which a String placeholder is directly followed by another one
C23_WitnessRejected ==
    /\ pc = "compile_error"
    /\ def.fields = <<Field("x", Primitive(TyString)), Field("y", Primitive(TyString))>>
    /\ def.segments = <<Placeholder("x"), Placeholder("y")>>

\* ---------------------------------------------------------------- repeated collections
\* the later occurrences, among the captures, of collection fields
CollectionDups == {n \in dup_checks(caps) : IsCollection(get_field_kind(def, caps[n].name))}

\* those whose canonical ','-joined rendering differs from the first occurrence's
CollectionDisagreeing == {n \in CollectionDups : CanonText(n) # CanonText(first_bind(caps, n))}

\* C24 as stated. A collection field occurring more than once is compared through the
\* canonical ','-joined rendering of its parsed elements: when the input matches and the
\* template repeats collection fields only, from_str returns Ok exactly when every later
\* occurrence renders like the first (for a set whatever the order and repetitions of
\* the elements listed, for a Vec exactly for the same element sequence), and otherwise
\* InconsistentValues with the two renderings as first_value / second_value.
C24_CollectionConsistency ==
    (ScanCompleted /\ CollectionDups # {} /\ CollectionDups = dup_checks(caps))
        => /\ (result.kind = "Ok") <=> (CollectionDisagreeing = {})
           /\ CollectionDisagreeing # {}
                 => \E n \in CollectionDisagreeing :
                       result = Err(InconsistentValues(caps[n].name,
                                       CanonText(first_bind(caps, n)), CanonText(n)))

\* the same for the inputs in which no set of strings holds the empty string and no
\* text holds the colon marker
C24_ConsistencyApartFromEmptyElements ==
    (/\ ScanCompleted /\ CollectionDups # {} /\ CollectionDups = dup_checks(caps)
     /\ match_indices(s, escaped_colon_marker) = <<>>
     /\ \A n \in 1..Len(caps) :
           get_field_kind(def, caps[n].name) \in {HashSet(TyString), BTreeSet(TyString)}
              => <<>> \notin caps[n].v)
        => /\ (result.kind = "Ok") <=> (CollectionDisagreeing = {})
           /\ CollectionDisagreeing # {}
                 => \E n \in CollectionDisagreeing :
                       result = Err(InconsistentValues(caps[n].name,
                                       CanonText(first_bind(caps, n)), CanonText(n)))

\* a set of strings listed in two different orders, accepted as consistent
C24_SetOrderAccepted ==
    /\ ScanCompleted
    /\ def.fields = <<Field("x", HashSet(TyString))>>
    /\ s = <<"1", ",", "a", ";", "a", ",", "1">>
    /\ result.kind = "Ok"
    /\ result.value = [x |-> {<<"1">>, <<"a">>}]

\* ---------------------------------------------------------------- C25
\* What a template text spells, read from the left: '{{' and '}}' stand for one literal
\* brace, a single '{' opens a placeholder that runs to the next '}' and is named by the
\* enclosed text trimmed, every other character stands for itself.
LiteralChar(c)      == [u |-> "char", c |-> c, name |-> ""]
PlaceholderUnit(n)  == [u |-> "placeholder", c |-> "", name |-> n]

RECURSIVE Units(_, _)
Units(text, p) ==
    IF p >= Len(text) THEN <<>>
    ELSE LET c     == text[p + 1]
             close == find_from(text, "}", p + 1)
         IN  IF c \in {"{", "}"} /\ p + 1 < Len(text) /\ text[p + 2] = c
             THEN <<LiteralChar(c)>> \o Units(text, p + 2)
             ELSE IF c = "{"
                  THEN IF close = -1 THEN <<>>
                       ELSE <<PlaceholderUnit(Ident(trim(Slice(text, p + 1, close))))>>
                                \o Units(text, close + 1)
                  ELSE <<LiteralChar(c)>> \o Units(text, p + 1)

\* the units a list of Literal and Placeholder segments holds, in order
RECURSIVE Flatten(_)
Flatten(segments) ==
    IF segments = <<>> THEN <<>>
    ELSE (IF IsLiteral(segments[1])
          THEN [k \in 1..Len(segments[1].text) |-> LiteralChar(segments[1].text[k])]
          ELSE <<PlaceholderUnit(segments[1].name)>>)
         \o Flatten(Tail(segments))

Segmented == pc \in {"segmented", "segmented_base"}

\* the segmenter applied as parse_template_base, or as parse_template to a text without '['
BraceSegmented ==
    \/ pc = "segmented_base"
    \/ pc = "segmented" /\ find_from(def.attr, "[", 0) = -1

\* C25: for a template the brace segmenter accepts, the segments are Literal and Placeholder
\* segments that spell, in template order, exactly what the text spells when '{{' and '}}'
\* are read as one literal brace and a single '{' as a placeholder closed by the next '}'
\* and named by the trimmed enclosed text; no Literal segment is empty.
C25_Segmentation ==
    (BraceSegmented /\ build.ok)
        => /\ \A k \in 1..Len(build.segments) :
                 /\ IsLiteral(build.segments[k]) \/ IsPlaceholder(build.segments[k])
                 /\ IsLiteral(build.segments[k]) => build.segments[k].text # <<>>
           /\ Flatten(build.segments) = Units(def.attr, 0)

\* {{x={ x }}} is segmented into "{x=", the placeholder x and "}"
C25_Witness ==
    /\ pc = "segmented_base"
    /\ def.attr = <<"{", "{", "x", "=", "{", Space, "x", Space, "}", "}", "}">>
    /\ build.ok
    /\ build.segments = <<Literal(<<"{">>), Literal(<<"x", "=">>), Placeholder("x"),
                          Literal(<<"}">>)>>

\* ---------------------------------------------------------------- C26
\* The brace defects of a template text read from the left as under C25: a single '{' with
\* no '}' after it, a single '{' whose enclosed text holds '{', a '}' that neither closes a
\* placeholder nor is part of '}}'.
RECURSIVE BraceDefect(_, _)
BraceDefect(text, p) ==
    IF p >= Len(text) THEN "none"
    ELSE LET c     == text[p + 1]
             close == find_from(text, "}", p + 1)
         IN  IF c \in {"{", "}"} /\ p + 1 < Len(text) /\ text[p + 2] = c
             THEN BraceDefect(text, p + 2)
             ELSE IF c = "{"
                  THEN IF close = -1 THEN "unmatched {"
                       ELSE IF \E q \in (p + 1)..(close - 1) : text[q + 1] = "{"
                            THEN "nested"
                            ELSE BraceDefect(text, close + 1)
                  ELSE IF c = "}" THEN "unmatched }"
                  ELSE BraceDefect(text, p + 1)

HasBraceDefect(text) == BraceDefect(text, 0) # "none"

\* C26 as stated: parse_template returns an error for every template with a brace defect and
\* a segment list for every template without one.
C26_ErrorsAsStated ==
    pc = "segmented" => (build.ok <=> ~HasBraceDefect(def.attr))

\* C26, first half alone
C26_DefectRejected ==
    (pc = "segmented" /\ HasBraceDefect(def.attr)) => ~build.ok

\* The bracket defects of a template text: a '[' that is not part of '[[', met when the
\* text is read from the left with '[[' and ']]' skipped as pairs, that has no ']' after
\* it, or whose text up to the next ']' spells no placeholder or more than one.
PlaceholderUnits(text) ==
    SelectSeq(Units(text, 0), LAMBDA u : u.u = "placeholder")

RECURSIVE BracketDefect(_, _)
BracketDefect(text, p) ==
    IF p >= Len(text) THEN "none"
    ELSE LET c     == text[p + 1]
             close == find_from(text, "]", p + 1)
         IN  IF c \in {"[", "]"} /\ p + 1 < Len(text) /\ text[p + 2] = c
             THEN BracketDefect(text, p + 2)
             ELSE IF c = "["
                  THEN IF close = -1 THEN "unmatched ["
                       ELSE IF Len(PlaceholderUnits(Slice(text, p + 1, close))) # 1
                            THEN "group"
                            ELSE BracketDefect(text, p + 1)
                  ELSE BracketDefect(text, p + 1)

HasBracketDefect(text) == BracketDefect(text, 0) # "none"

\* C26 (amended): parse_template returns an error for every template with a brace defect,
\* and for every template with a bracket defect; it returns a segment list for every
\* template that holds no '[' and has no brace defect, and so does parse_template_base for
\* every text without a brace defect.
C26_Errors ==
    /\ pc = "segmented"
          => /\ HasBraceDefect(def.attr) => ~build.ok
             /\ HasBracketDefect(def.attr) => ~build.ok
             /\ find_from(def.attr, "[", 0) = -1 => (build.ok <=> ~HasBraceDefect(def.attr))
    /\ pc = "segmented_base" => (build.ok <=> ~HasBraceDefect(def.attr))

\* {x{} is rejected for its nested brace
C26_Witness ==
    /\ pc = "segmented"
    /\ def.attr = <<"{", "x", "{", "}">>
    /\ ~build.ok
    /\ build.err = "Nested braces are not supported: x{"

\* {[[} has no defect of either kind and is rejected all the same: the text is cut at '[['
C26_WitnessBracket ==
    /\ pc = "segmented"
    /\ def.attr = <<"{", "[", "[", "}">>
    /\ ~HasBraceDefect(def.attr)
    /\ ~HasBracketDefect(def.attr)
    /\ ~build.ok

\* ---------------------------------------------------------------- C27
\* the kind the classification is stated to give a type
StatedKinds(ty) ==
    IF ty.syn = "Tuple" THEN {Tuple}
    ELSE IF ty.syn # "Path" THEN {Unknown}
    ELSE IF ty.arguments.a = "None" THEN {Primitive(ty.ident)}
    ELSE IF ty.arguments.a # "AngleBracketed" THEN {Unknown}
    ELSE LET args == ty.arguments.args
             types == \A k \in 1..Len(args) : args[k].g = "Type"
         IN  IF ty.ident = "Option" /\ Len(args) = 1 /\ types
             THEN {Option(args[1].ty)}
             ELSE IF ty.ident \in {"Vec", "HashSet", "BTreeSet"} /\ Len(args) = 1 /\ types
             THEN {Collection(ty.ident, args[1].ty)}
             ELSE IF ty.ident \in {"HashMap", "BTreeMap"} /\ Len(args) = 2 /\ types
             THEN {KVCollection(ty.ident, args[1].ty, args[2].ty)}
             ELSE IF ty.ident = "Result" /\ Len(args) = 2 /\ types
             THEN {Result(args[1].ty, args[2].ty), Unknown}
             ELSE {Unknown}

NamedFields == {k \in 1..Len(def.syn_fields) : def.syn_fields[k].ident # <<>>}

\* C27: once the fields are analysed, every named field has a kind in the registry, and it
\* is the kind its type's structure determines: Option(inner), the collection kind, the
\* mapping kind, Primitive, Tuple, and Unknown (or the unsupported Result kind) otherwise.
C27_ClassificationTotal ==
    pc = "analyzed"
        => \A k \in NamedFields :
              /\ def.syn_fields[k].ident[1] \in DOMAIN build.idents_type
              /\ build.idents_type[def.syn_fields[k].ident[1]] \in StatedKinds(def.syn_fields[k].ty)

\* the same for every field whose type is not Result with another number of arguments than two
ResultMiscounted(ty) ==
    /\ ty.syn = "Path"
    /\ ty.arguments.a = "AngleBracketed"
    /\ ty.ident = "Result"
    /\ Len(ty.arguments.args) # 2

C27_ClassificationApartFromResult ==
    pc = "analyzed"
        => \A k \in NamedFields :
              IF ResultMiscounted(def.syn_fields[k].ty)
              THEN def.syn_fields[k].ident[1] \notin DOMAIN build.idents_type
              ELSE /\ def.syn_fields[k].ident[1] \in DOMAIN build.idents_type
                   /\ build.idents_type[def.syn_fields[k].ident[1]]
                          \in StatedKinds(def.syn_fields[k].ty)

\* ---------------------------------------------------------------- C28
\* C28: from_str returns Ok or a TemplateError for every input: in the error mapper of a
\* literal the previous literal occurs at least last_literal_count times in the input and
\* the start offset computed from that occurrence is at most the input length, so that
\* building the literal-mismatch error never goes out of range.
C28_NoPanic ==
    pc = "done" => result.kind \in {"Ok", "Err"}

\* every panic comes from a literal's error mapper whose previous literal occurs fewer than
\* last_literal_count times in the input, or whose start offset passes the end of the input
C28_InRangeAfterMatch ==
    (pc = "done" /\ result.kind = "Panic")
        => \E j \in 1..Len(def.segments) :
              /\ IsLiteral(def.segments[j])
              /\ last_literal_count(def, j) > 0
              /\ \/ Len(match_indices(s, last_literal_parsed(def, j))) < last_literal_count(def, j)
                 \/ match_indices(s, last_literal_parsed(def, j))[last_literal_count(def, j)]
                        + Len(last_literal_parsed(def, j)) > Len(s)

\* ---------------------------------------------------------------- C29
AdjacentLiterals(segments) ==
    {k \in 1..(Len(segments) - 1) : IsLiteral(segments[k]) /\ IsLiteral(segments[k + 1])}

\* C29: the segments of an accepted template never hold two Literal segments side by side:
\* the literal that follows a placeholder is the whole literal text up to the next
\* placeholder or the end of the template.
C29_MaximalLiterals ==
    (Segmented /\ build.ok) => AdjacentLiterals(build.segments) = {}

\* Literal segments stand side by side only where the text is cut after an escaped brace
\* (or, in a template with '[', at a doubled bracket or around a group)
C29_AdjacentOnlyAfterEscape ==
    (BraceSegmented /\ build.ok)
        => \A k \in AdjacentLiterals(build.segments) :
              build.segments[k].text[Len(build.segments[k].text)] \in {"{", "}"}

\* a template without '{{', '}}' and '[' has maximal literals
C29_MaximalWithoutEscapes ==
    (BraceSegmented /\ build.ok
       /\ \A p \in 1..(Len(def.attr) - 1) :
             ~(def.attr[p] = def.attr[p + 1] /\ def.attr[p] \in {"{", "}"}))
        => AdjacentLiterals(build.segments) = {}

\* ---------------------------------------------------------------- C30
\* the template text a list of segments stands for: a literal's text with its braces and
\* brackets doubled back, a placeholder as its name in braces, a group as its segments in
\* brackets
RECURSIVE Covered(_)
Covered(segments) ==
    IF segments = <<>> THEN <<>>
    ELSE (CASE IsLiteral(segments[1]) -> Flatten(<<segments[1]>>)
            [] IsPlaceholder(segments[1]) -> <<PlaceholderUnit(segments[1].name)>>
            [] segments[1].t = "GroupBox" ->
                  <<LiteralChar("[")>> \o Covered(segments[1].segments) \o <<LiteralChar("]")>>)
         \o Covered(Tail(segments))

\* what a template text spells when '[[' and ']]' are read as one bracket as well
RECURSIVE UnitsBracketed(_, _)
UnitsBracketed(text, p) ==
    IF p >= Len(text) THEN <<>>
    ELSE LET c     == text[p + 1]
             close == find_from(text, "}", p + 1)
         IN  IF c \in {"{", "}", "[", "]"} /\ p + 1 < Len(text) /\ text[p + 2] = c
             THEN <<LiteralChar(c)>> \o UnitsBracketed(text, p + 2)
             ELSE IF c = "{"
                  THEN IF close = -1 THEN <<>>
                       ELSE <<PlaceholderUnit(Ident(trim(Slice(text, p + 1, close))))>>
                                \o UnitsBracketed(text, close + 1)
                  ELSE <<LiteralChar(c)>> \o UnitsBracketed(text, p + 1)

\* C30: for every template parse_template accepts, with or without '[' and ']', the
\* segments in order spell the template once: no text is dropped and none appears twice.
C30_CoveredOnce ==
    (pc = "segmented" /\ build.ok)
        => \/ Covered(build.segments) = Units(def.attr, 0)
           \/ Covered(build.segments) = UnitsBracketed(def.attr, 0)

\* the same for the accepted templates in which no group is recognised
C30_CoveredOnceWithoutGroup ==
    (pc = "segmented" /\ build.ok /\ \A k \in 1..Len(build.segments) : build.segments[k].t # "GroupBox")
        => \/ Covered(build.segments) = Units(def.attr, 0)
           \/ Covered(build.segments) = UnitsBracketed(def.attr, 0)

\* the same for the templates without '['
C30_CoveredOnceWithoutBracket ==
    (BraceSegmented /\ build.ok) => Covered(build.segments) = Units(def.attr, 0)

\* a template with a group: the group's text is emitted as a GroupBox and again, with all
\* the text before it, by the closing parse_template_base(&template[last_end..])
C30_GroupEmittedTwice ==
    (pc = "segmented" /\ build.ok /\ \E k \in 1..Len(build.segments) : build.segments[k].t = "GroupBox")
        => \E k \in 1..Len(build.segments) :
              /\ build.segments[k].t = "GroupBox"
              /\ \E m \in (k + 1)..Len(build.segments) :
                    /\ IsPlaceholder(build.segments[m])
                    /\ build.segments[m].name = build.segments[k].placeholder

==============================================================================
